---- MODULE Spec2Model ----
(***************************************************************************)
(* The publish pipeline of oc-mirror: MirrorOptions.Publish                *)
(* (pkg/cli/mirror/publish.go) run repeatedly against one working          *)
(* directory (o.Dir) and one destination registry, with the registry       *)
(* metadata backend of pkg/metadata/storage/registry.go.                   *)
(*                                                                         *)
(* One behaviour is a series of Publish invocations.  Between invocations  *)
(* pc = "idle"; the state that survives an invocation is the set of        *)
(* metadata images in the registry and the metadata file in o.Dir.         *)
(***************************************************************************)
EXTENDS Integers, Sequences, FiniteSets, TLC

(***************************************************************************)
(* Bounds of the model.                                                    *)
(***************************************************************************)
\* number of Publish invocations in one behaviour
MaxRuns == 2
\* largest PastMirror.Sequence an archive carries (the smallest is 0)
MaxSeq == 3
\* environment faults (I/O, network, registry errors) injected per invocation
MaxFaults == 1
\* entries the archive lacks, besides the differential archive (no blobs)
MaxMissing == 0
\* invocations in one behaviour whose archive carries images
MaxImageRuns == 1
\* longest content of a blob or of a file found at a destination path
MaxLen == 2
\* longest list of destination paths handed to one fetchBlob call
MaxPaths == 3
\* most child manifests an image index lists
MaxChildren == 4

(***************************************************************************)
(* Data: workspace identities, metadata images, associations.              *)
(***************************************************************************)
Uids == {"u1", "u2"}

\* the types imagesource.ParseReference(o.ToMirror) can report; "" stands for
\* a value that does not parse
DestinationRegistry == "registry"

ToMirrorTypes == {DestinationRegistry, "file", ""}

\* config.HelmDir
HelmDir == "charts"

\* o.ToMirror, when it is a registry reference, and o.UserNamespace (path
\* components)
ToMirror == "reg.test"

UserNamespace == <<"ns">>

\* o.newMetadataImage(uid): the metadata image of a workspace, tagged by its Uid
newMetadataImage(uid) == <<ToMirror, UserNamespace, "oc-mirror", uid>>

ImageRefs == {newMetadataImage(u) : u \in Uids}

\* image.Association, with the top-level key of its group as field Key; Path is
\* the sequence of the components of the slash-separated path
Assoc(key, name, path, tag, id, type, mds, lds) ==
    [Key |-> key, Name |-> name, Path |-> path, TagSymlink |-> tag, ID |-> id,
     Type |-> type, ManifestDigests |-> mds, LayerDigests |-> lds]

\* a single-manifest image, as in TestAssociateLocalImageLayers Valid/ManifestWithTag
AssocA == Assoc("origin.test/lib/imgA:latest", "origin.test/lib/imgA:latest", <<"pa">>, "latest", "mA", "generic",
                <<>>, <<"l1", "l2">>)

\* an image index and its child manifest, as in the Valid/IndexManifest tests
AssocB == Assoc("origin.test/imgB:latest", "origin.test/imgB:latest", <<"team", "pb">>, "latest", "mB", "generic",
                <<"c1">>, <<>>)

AssocC1 == Assoc("origin.test/imgB:latest", "c1", <<"team", "pb">>, "", "c1", "generic",
                 <<>>, <<"l2", "l3">>)

\* an image whose top-level key is no image reference
AssocX == Assoc("img X", "img X", <<"px">>, "", "mX", "generic", <<>>, <<"l1">>)

\* an image whose Path gives no file:// reference
AssocY == Assoc("origin.test/imgY:latest", "origin.test/imgY:latest", <<"p Y">>, "", "mY", "generic",
                <<>>, <<"l3">>)

\* an index naming a child ("c9") that has no association in its group, and
\* one ("c8") that has
AssocZ == Assoc("origin.test/imgZ:latest", "origin.test/imgZ:latest", <<"pz">>, "", "mZ", "generic",
                <<"c9", "c8">>, <<>>)

AssocC8 == Assoc("origin.test/imgZ:latest", "c8", <<"pz">>, "", "c8", "generic",
                 <<>>, <<"l1">>)

\* the association sets an archive's metadata may carry, by name
AssocSetNames == {"none", "simple", "mixed", "odd", "broken"}

AssociationSet(n) ==
    CASE n = "simple" -> {AssocA}
      [] n = "mixed"  -> {AssocA, AssocB, AssocC1}
      [] n = "odd"    -> {AssocX, AssocY}
      [] n = "broken" -> {AssocZ, AssocC8}
      [] OTHER        -> {}

\* v1alpha2.Metadata; the association sets are held by name
Meta(uid, single, seq, assocs, past) ==
    [Uid |-> uid, SingleUse |-> single, Sequence |-> seq,
     Associations |-> assocs, PastAssociations |-> past]

\* the zero value of v1alpha2.Metadata (var currentMeta v1alpha2.Metadata)
ZeroMeta == Meta("", FALSE, 0, "none", "none")

\* an encoding that leaves the past associations out of the document
MarshalNoPast(m) ==
    <<m.Uid, m.SingleUse, m.Sequence, m.Associations, "none">>

\* json.Marshal of a Metadata: the document written to a file or an image layer
Marshal(m) ==
    <<m.Uid, m.SingleUse, m.Sequence, m.Associations, m.PastAssociations>>

\* json decoding of a metadata document
Unmarshal(b) == Meta(b[1], b[2], b[3], b[4], b[5])

\* a file or an image that does not exist / that holds document b
Absent == [present |-> FALSE, data |-> Marshal(ZeroMeta)]

Holding(b) == [present |-> TRUE, data |-> b]

(***************************************************************************)
(* The image set archive: its file index (bundle.ReadImageSet).            *)
(***************************************************************************)
\* archive entry v2/<path>/manifests/<d> (a manifest, or a tag symlink)
ManifestFile(path, d) == <<"manifest", path, d>>

\* archive entry blobs/<l>
BlobFile(l) == <<"blob", <<>>, l>>

\* file <unpackDir>/v2/<path>/blobs/<l> of an image's temp directory
ImageBlobPath(path, l) == <<"blob", path, l>>

Range(s) == {s[i] : i \in DOMAIN s}

\* every entry a complete archive holds for association a
FilesOfAssoc(a) ==
    {ManifestFile(a.Path, a.ID)}
    \cup {ManifestFile(a.Path, d) : d \in Range(a.ManifestDigests)}
    \cup (IF a.TagSymlink = "" THEN {} ELSE {ManifestFile(a.Path, a.TagSymlink)})
    \cup {BlobFile(l) : l \in Range(a.LayerDigests)}

AllFiles(n) == UNION {FilesOfAssoc(a) : a \in AssociationSet(n)}

BlobFiles(n) == {f \in AllFiles(n) : f[1] = "blob"}

\* the archives that may come with association set n: complete, lacking up to
\* MaxMissing entries, or differential (every blob left out)
Archives(n) ==
    {AllFiles(n) \ m : m \in {x \in SUBSET AllFiles(n) : Cardinality(x) <= MaxMissing}}
    \cup {AllFiles(n) \ BlobFiles(n)}

\* the metadata documents an archive may carry; PastAssociations is cumulative:
\* it holds the associations of the archive itself, and for an archive without
\* images those of earlier runs, if any
IncomingMetas ==
    {Meta(u, s, q, a, a) : u \in Uids, s \in BOOLEAN, q \in 0..MaxSeq,
                           a \in AssocSetNames}
    \cup {Meta(u, s, q, "none", "simple") : u \in Uids, s \in BOOLEAN, q \in 0..MaxSeq}

(***************************************************************************)
(* State.                                                                  *)
(***************************************************************************)
VARIABLES
    \* what survives an invocation
    registry,        \* metadata image at each image reference of the registry
    localFile,       \* the file <o.Dir>/<MetadataBasePath>
    imageRuns,       \* invocations so far whose archive carried images
    runs,            \* invocations started so far
    onlySingleUse,   \* every archive unpacked so far had SingleUse = true
    \* the invocation in progress (or the last one)
    pc,              \* position in Publish
    SkipCleanup,     \* o.SkipCleanup
    DryRun,          \* o.DryRun
    ctxDone,         \* TRUE once ctx, the context given to Publish, is cancelled
    toMirrorType,    \* Type of imagesource.ParseReference(o.ToMirror), "" if it fails
    filesInArchive,  \* file index of the archive
    incomingMeta,    \* metadata read from the archive
    currentMeta,     \* metadata read from the backend
    backend,         \* "local" (stateless), "registry" (stateful), "" before
    readErr,         \* result of backend.ReadMetadata
    manifestAns,     \* the registry's answer to the manifest request of exists
    deferred,        \* deferred calls registered so far
    logged,          \* errors that were logged and not returned
    tmpdir,          \* TRUE while the run temp directory exists
    outputDir,       \* what this invocation wrote to o.OutputDir
    faults,          \* environment faults injected in this invocation
    retErr,          \* the error Publish is returning
    before,          \* registry and localFile when the invocation started
    wrote,           \* TRUE once backend.WriteMetadata returned nil
    \* the per-image loop
    errs,            \* var errs []error
    allMappings,     \* the image.TypedImageMapping Publish returns
    keysLeft,        \* keys of assocs.Keys() not yet iterated
    imageName,       \* the key being processed
    valuesLeft,      \* associations of imageName not yet iterated
    assoc,           \* the association being processed
    digestsLeft,     \* rest of the ManifestDigests / LayerDigests being iterated
    missingLayers,   \* map layer digest -> paths to fetch it to
    mmapping,        \* mappings collected for imageName
    unpackDirs,      \* image keys whose per-image temp directory exists
    dirFiles,        \* files in the per-image temp directories
    driverCalls,     \* the publishImage calls made, in order
    started,         \* the image keys whose loop body began, in order
    fetched,         \* the references fetchBlob was called with
    pushed,          \* the image keys the Publish Driver pushed to the destination
    \* one fetchBlob call
    fpc,             \* position in fetchBlob
    blob,            \* content of the blob in the registry
    rcPos,           \* read offset of rc, the opened blob
    opens,           \* number of repo.Blobs(ctx).Open calls
    dstPaths,        \* the dstPaths parameter
    dstLeft,         \* destination paths not yet iterated
    dstFiles,        \* the files at the destination paths
    dstBefore,       \* dstFiles when fetchBlob was called
    \* processCustomImages
    custom,          \* what it found in the archive and the steps it invoked
    \* one AssociateLocalImageLayers / AssociateRemoteImageLayers call
    bpc,             \* position in the builder
    srcImage,        \* the image mapping handed to it and the manifests it finds
    built,           \* the associations built so far
    childrenLeft     \* child manifests of the index not yet associated

persistVars == <<registry, localFile, imageRuns, runs, onlySingleUse>>

inputVars == <<SkipCleanup, DryRun, ctxDone, toMirrorType, filesInArchive, incomingMeta>>

buildVars == <<bpc, srcImage, built, childrenLeft>>

copyVars == <<fpc, blob, rcPos, opens, dstPaths, dstLeft, dstFiles, dstBefore>>

loadVars == <<currentMeta, backend, readErr, manifestAns>>

loopVars == <<errs, allMappings, keysLeft, imageName, valuesLeft, assoc,
              digestsLeft, missingLayers, mmapping, unpackDirs, dirFiles,
              driverCalls, started, fetched, pushed, custom>>

vars == <<persistVars, pc, inputVars, copyVars, buildVars, loadVars, deferred, logged, tmpdir, outputDir,
          faults,
          retErr, before, wrote, loopVars>>

\* error values of Publish: nil, *SequenceError, the aggregate, any other error
NoError == [kind |-> "nil", want |-> 0, got |-> 0, at |-> ""]

SequenceError(want, got) ==
    [kind |-> "SequenceError", want |-> want, got |-> got, at |-> "guard"]

OtherError(at) == [kind |-> "error", want |-> 0, got |-> 0, at |-> at]

\* an environment fault may be injected
CanFail == faults < MaxFaults

NoAssoc == Assoc("", "", <<>>, "", "", "", <<>>, <<>>)

(***************************************************************************)
(* Metadata backends (pkg/metadata/storage).                               *)
(***************************************************************************)
\* what the registry may answer to the manifest request for an image, with the
\* result of the push-permission check that follows a 401.  A registry answers
\* 200 for an image that exists, 404 or 401 for one that does not; every other
\* answer is an environment fault.  code 0 is an error that is no transport.Error.
RegistryAnswers(img) ==
    (IF img.present
       THEN {[code |-> 200, pushOK |-> TRUE, fault |-> FALSE]}
       ELSE {[code |-> 404, pushOK |-> TRUE, fault |-> FALSE],
             [code |-> 401, pushOK |-> TRUE, fault |-> FALSE]})
    \cup {[code |-> c, pushOK |-> FALSE, fault |-> TRUE] : c \in {401, 500, 0}}

\* exists for which a 401 always means that there is no metadata
existsPushUnchecked(code, pushOK) ==
    CASE code = 404 -> "ErrMetadataNotExist"
      [] code = 401 -> "ErrMetadataNotExist"
      [] code = 200 -> "nil"
      [] OTHER      -> "error"

\* no manifest request was made
NoAnswer == [code |-> -1, pushOK |-> FALSE, pulled |-> FALSE]

\* registryBackend.exists
exists(code, pushOK) ==
    CASE code = 404 -> "ErrMetadataNotExist"
      [] code = 401 -> IF pushOK THEN "ErrMetadataNotExist" ELSE "error"
      [] code = 200 -> "nil"
      [] OTHER      -> "error"

\* localDirBackend.ReadMetadata on file f, when decoding does not fail
LocalReadMetadata(f) ==
    IF f.present THEN [err |-> "nil", meta |-> Unmarshal(f.data)]
                 ELSE [err |-> "ErrMetadataNotExist", meta |-> ZeroMeta]

(***************************************************************************)
(* Publish, up to the sequence guard.                                      *)
(***************************************************************************)
\* an error that is recorded while Publish goes on with its last phases
ReturnErrGoesOn(e) == pc' = "custom" /\ retErr' = e


\* no image mapping is being associated
NoImage == [remote |-> FALSE, tag |-> "", byID |-> FALSE, dst |-> "", children |-> <<>>]

NoBuild ==
    /\ bpc = "idle"
    /\ srcImage = NoImage
    /\ built = {}
    /\ childrenLeft = <<>>

\* processCustomImages has not run in this invocation
NoCustom == [ran |-> FALSE, catalog |-> FALSE, release |-> FALSE, calls |-> <<>>, failed |-> ""]

\* return allMappings, e
ReturnErr(e) == pc' = "return" /\ retErr' = e

ResetLoop ==
    /\ errs' = <<>>
    /\ allMappings' = {}
    /\ keysLeft' = {}
    /\ imageName' = ""
    /\ valuesLeft' = {}
    /\ assoc' = NoAssoc
    /\ digestsLeft' = <<>>
    /\ missingLayers' = <<>>
    /\ mmapping' = <<>>
    /\ unpackDirs' = {}
    /\ dirFiles' = {}
    /\ driverCalls' = <<>>
    /\ started' = <<>>
    /\ fetched' = {}
    /\ pushed' = {}
    /\ custom' = NoCustom

\* CreateWorkspace without the deferred cleanup of the run directory
CreateWorkspaceNoDefer ==
    /\ pc \in {"idle", "done", "exited"}
    /\ runs < MaxRuns
    /\ runs' = runs + 1
    /\ UNCHANGED <<registry, localFile, imageRuns, onlySingleUse, copyVars, buildVars>>
    /\ before' = [registry |-> registry, localFile |-> localFile]
    /\ SkipCleanup' \in BOOLEAN
    /\ DryRun' \in BOOLEAN
    /\ ctxDone' = FALSE
    /\ toMirrorType' \in ToMirrorTypes
    /\ outputDir' = {}
    /\ filesInArchive' = {}
    /\ incomingMeta' = ZeroMeta
    /\ currentMeta' = ZeroMeta
    /\ backend' = ""
    /\ readErr' = ""
    /\ manifestAns' = NoAnswer
    /\ wrote' = FALSE
    /\ logged' = {}
    /\ ResetLoop
    /\ \/ /\ pc' = "unpack"
          /\ retErr' = NoError
          /\ tmpdir' = TRUE
          /\ deferred' = <<>>
          /\ faults' = 0
       \/ \* o.createResultsDir or mktempDir fails
          /\ MaxFaults > 0
          /\ pc' = "return"
          /\ retErr' = OtherError("workspace")
          /\ tmpdir' = FALSE
          /\ deferred' = <<>>
          /\ faults' = 1

\* Publish is invoked: results directory and run temp directory are created
CreateWorkspace ==
    /\ pc \in {"idle", "done", "exited"}
    /\ runs < MaxRuns
    /\ runs' = runs + 1
    /\ UNCHANGED <<registry, localFile, imageRuns, onlySingleUse, copyVars, buildVars>>
    /\ before' = [registry |-> registry, localFile |-> localFile]
    /\ SkipCleanup' \in BOOLEAN
    /\ DryRun' \in BOOLEAN
    /\ ctxDone' = FALSE
    /\ toMirrorType' \in ToMirrorTypes
    /\ outputDir' = {}
    /\ filesInArchive' = {}
    /\ incomingMeta' = ZeroMeta
    /\ currentMeta' = ZeroMeta
    /\ backend' = ""
    /\ readErr' = ""
    /\ manifestAns' = NoAnswer
    /\ wrote' = FALSE
    /\ logged' = {}
    /\ ResetLoop
    /\ \/ /\ pc' = "unpack"
          /\ retErr' = NoError
          /\ tmpdir' = TRUE
          /\ deferred' = IF SkipCleanup' THEN <<>> ELSE <<"cleanup">>
          /\ faults' = 0
       \/ \* o.createResultsDir or mktempDir fails
          /\ MaxFaults > 0
          /\ pc' = "return"
          /\ retErr' = OtherError("workspace")
          /\ tmpdir' = FALSE
          /\ deferred' = <<>>
          /\ faults' = 1

\* bundle.ReadImageSet, o.unpackImageSet, workspace.ReadMetadata
UnpackImageSet ==
    /\ pc = "unpack"
    /\ UNCHANGED <<registry, localFile, runs, copyVars, buildVars, SkipCleanup, DryRun, ctxDone, toMirrorType,
                   loadVars, deferred, logged,
                   tmpdir, outputDir, before, wrote, loopVars>>
    /\ \/ \E m \in IncomingMetas :
            /\ m.Associations # "none" => imageRuns < MaxImageRuns
            /\ imageRuns' = imageRuns + (IF m.Associations # "none" THEN 1 ELSE 0)
            /\ incomingMeta' = m
            /\ onlySingleUse' = (onlySingleUse /\ m.SingleUse)
            /\ filesInArchive' \in Archives(m.Associations)
            /\ pc' = "backend"
            /\ UNCHANGED <<faults, retErr>>
       \/ /\ CanFail
          /\ faults' = faults + 1
          /\ ReturnErr(OtherError("unpack"))
          /\ UNCHANGED <<filesInArchive, incomingMeta, imageRuns, onlySingleUse>>

\* SelectBackend that does not defer backend.Cleanup
SelectBackendNoDefer ==
    /\ pc = "backend"
    /\ UNCHANGED <<persistVars, inputVars, copyVars, buildVars, currentMeta, readErr, manifestAns, tmpdir, outputDir, before,
                   wrote, logged, loopVars>>
    /\ \/ /\ backend' = IF incomingMeta.SingleUse THEN "local" ELSE "registry"
          /\ pc' = "read"
          /\ UNCHANGED <<faults, retErr, deferred>>
       \/ /\ CanFail
          /\ faults' = faults + 1
          /\ ReturnErr(OtherError("backend"))
          /\ UNCHANGED <<backend, deferred>>

\* SelectBackend deferring backend.Cleanup in both modes
SelectBackendDeferAlways ==
    /\ pc = "backend"
    /\ UNCHANGED <<persistVars, inputVars, copyVars, buildVars, currentMeta, readErr, manifestAns, tmpdir, outputDir, before,
                   wrote, logged, loopVars>>
    /\ \/ /\ backend' = IF incomingMeta.SingleUse THEN "local" ELSE "registry"
          /\ deferred' = <<"backend.Cleanup">> \o deferred
          /\ pc' = "read"
          /\ UNCHANGED <<faults, retErr>>
       \/ /\ CanFail
          /\ faults' = faults + 1
          /\ ReturnErr(OtherError("backend"))
          /\ UNCHANGED <<backend, deferred>>

\* storage.ByConfig: stateless (local directory) or stateful (registry image)
SelectBackend ==
    /\ pc = "backend"
    /\ UNCHANGED <<persistVars, inputVars, copyVars, buildVars, currentMeta, readErr, manifestAns, tmpdir, outputDir, before,
                   wrote, logged, loopVars>>
    /\ \/ /\ backend' = IF incomingMeta.SingleUse THEN "local" ELSE "registry"
          /\ deferred' = IF incomingMeta.SingleUse
                           THEN <<"backend.Cleanup">> \o deferred ELSE deferred
          /\ pc' = "read"
          /\ UNCHANGED <<faults, retErr>>
       \/ /\ CanFail
          /\ faults' = faults + 1
          /\ ReturnErr(OtherError("backend"))
          /\ UNCHANGED <<backend, deferred>>
       \/ \* NewRegistryBackend cannot parse the image name made from o.ToMirror
          /\ ~incomingMeta.SingleUse
          /\ toMirrorType # DestinationRegistry
          /\ ReturnErr(OtherError("backend"))
          /\ UNCHANGED <<faults, backend, deferred>>

\* backend.ReadMetadata(ctx, &currentMeta, config.MetadataBasePath), local backend
LocalBackendRead ==
    /\ backend = "local"
    /\ UNCHANGED <<registry, localFile, manifestAns>>
    /\ \/ /\ readErr' = LocalReadMetadata(localFile).err
          /\ currentMeta' = LocalReadMetadata(localFile).meta
          /\ UNCHANGED faults
       \/ \* the file cannot be read or decoded
          /\ CanFail /\ localFile.present
          /\ faults' = faults + 1
          /\ readErr' = "error"
          /\ UNCHANGED currentMeta

\* RegistryBackendRead whose untar leaves an existing buffer file alone
RegistryBackendReadKeepsBuffer ==
    /\ backend = "registry"
    /\ UNCHANGED registry
    /\ LET img == IF toMirrorType = DestinationRegistry
                     THEN registry[newMetadataImage(incomingMeta.Uid)]
                     ELSE Absent IN
       \E ans \in RegistryAnswers(img) :
         /\ ans.fault => CanFail
         /\ manifestAns' = [code |-> ans.code, pushOK |-> ans.pushOK,
                            pulled |-> exists(ans.code, ans.pushOK) = "nil"]
         /\ IF exists(ans.code, ans.pushOK) # "nil"
              THEN /\ readErr' = exists(ans.code, ans.pushOK)
                   /\ faults' = faults + (IF ans.fault THEN 1 ELSE 0)
                   /\ UNCHANGED <<localFile, currentMeta>>
              ELSE \/ /\ localFile' = IF localFile.present THEN localFile
                                                             ELSE Holding(img.data)
                      /\ readErr' = LocalReadMetadata(localFile').err
                      /\ currentMeta' = LocalReadMetadata(localFile').meta
                      /\ UNCHANGED faults
                   \/ \* crane.Pull, GetWriter, crane.Export or Unarchive fails
                      /\ CanFail
                      /\ faults' = faults + 1
                      /\ readErr' = "error"
                      /\ UNCHANGED <<localFile, currentMeta>>
                   \/ \* Chmod or the decoding fails, after the untar
                      /\ CanFail
                      /\ faults' = faults + 1
                      /\ localFile' = Holding(img.data)
                      /\ readErr' = "error"
                      /\ UNCHANGED currentMeta

\* registryBackend.ReadMetadata: exists, unpack, then the local read
RegistryBackendRead ==
    /\ backend = "registry"
    /\ UNCHANGED registry
    /\ LET img == IF toMirrorType = DestinationRegistry
                     THEN registry[newMetadataImage(incomingMeta.Uid)]
                     ELSE Absent IN
       \E ans \in RegistryAnswers(img) :
         /\ ans.fault => CanFail
         /\ manifestAns' = [code |-> ans.code, pushOK |-> ans.pushOK,
                            pulled |-> exists(ans.code, ans.pushOK) = "nil"]
         /\ IF exists(ans.code, ans.pushOK) # "nil"
              THEN /\ readErr' = exists(ans.code, ans.pushOK)
                   /\ faults' = faults + (IF ans.fault THEN 1 ELSE 0)
                   /\ UNCHANGED <<localFile, currentMeta>>
              ELSE \/ \* pulled, exported and untarred over the local buffer
                      /\ localFile' = Holding(img.data)
                      /\ readErr' = LocalReadMetadata(localFile').err
                      /\ currentMeta' = LocalReadMetadata(localFile').meta
                      /\ UNCHANGED faults
                   \/ \* crane.Pull, GetWriter, crane.Export or Unarchive fails
                      /\ CanFail
                      /\ faults' = faults + 1
                      /\ readErr' = "error"
                      /\ UNCHANGED <<localFile, currentMeta>>
                   \/ \* Chmod or the decoding fails, after the untar
                      /\ CanFail
                      /\ faults' = faults + 1
                      /\ localFile' = Holding(img.data)
                      /\ readErr' = "error"
                      /\ UNCHANGED currentMeta

ReadCurrentMetadata ==
    /\ pc = "read"
    /\ pc' = "guard"
    /\ UNCHANGED <<imageRuns, runs, onlySingleUse, inputVars, copyVars, buildVars, backend, deferred, logged, tmpdir, outputDir, retErr,
                   before, wrote, loopVars>>
    /\ (LocalBackendRead \/ RegistryBackendRead)

\* SequenceCheck accepting any sequence above the current one
SequenceCheckMonotonic(notExist, incoming, current) ==
    IF notExist
      THEN IF incoming.Sequence # 1
             THEN SequenceError(1, incoming.Sequence) ELSE NoError
      ELSE IF incoming.Sequence <= current.Sequence
             THEN SequenceError(current.Sequence + 1, incoming.Sequence)
             ELSE NoError

\* SequenceCheck accepting any first archive
SequenceCheckFirstAny(notExist, incoming, current) ==
    IF notExist
      THEN NoError
      ELSE IF incoming.Sequence # current.Sequence + 1
             THEN SequenceError(current.Sequence + 1, incoming.Sequence)
             ELSE NoError

\* the error of the sequence check, once metadata was read or found absent
SequenceCheck(notExist, incoming, current) ==
    IF notExist
      THEN IF incoming.Sequence # 1
             THEN SequenceError(1, incoming.Sequence) ELSE NoError
      ELSE IF incoming.Sequence # current.Sequence + 1
             THEN SequenceError(current.Sequence + 1, incoming.Sequence)
             ELSE NoError

\* GuardResult taking every read error for "no metadata yet"
GuardResultAnyError(rerr, incoming, current) ==
    SequenceCheck(rerr # "nil", incoming, current)

\* the switch on the error of backend.ReadMetadata
GuardResult(rerr, incoming, current) ==
    IF rerr \notin {"nil", "ErrMetadataNotExist"}
      THEN OtherError("read")
      ELSE SequenceCheck(rerr = "ErrMetadataNotExist", incoming, current)

CheckSequence ==
    /\ pc = "guard"
    /\ UNCHANGED <<persistVars, inputVars, copyVars, buildVars, loadVars, deferred, logged, tmpdir, outputDir, faults,
                   before, wrote, loopVars>>
    /\ LET e == GuardResult(readErr, incomingMeta, currentMeta) IN
       IF e.kind # "nil" THEN ReturnErr(e)
                         ELSE pc' = "charts" /\ UNCHANGED retErr

(***************************************************************************)
(* Publish: charts, associations, the per-image loop.                      *)
(***************************************************************************)
\* assocs: image.ConvertToAssociationSet(incomingMeta.PastMirror.Associations)
assocs == AssociationSet(incomingMeta.Associations)

\* AssociationSet.Keys, Search, ContainsKey
Keys(as) == {a.Key : a \in as}

Search(as, key) == {a \in as : a.Key = key}

ContainsKey(as, key, member) == \E a \in as : a.Key = key /\ a.Name = member

\* imagesource.ParseReference succeeds on image reference s / on file://<path>
ParsesAsRef(s) == s \notin {"img X"}

ParsesAsFileRef(path) == \A i \in DOMAIN path : path[i] \notin {"p Y"}

\* path.Join of two component sequences
PathJoin(p, q) == p \o q

\* Namespace and Name of the reference parsed from file://<path>
RefNamespace(path) == SubSeq(path, 1, Len(path) - 1)

RefName(path) == path[Len(path)]

\* Mapping leaving o.UserNamespace out of the destination
MappingNoUserNamespace(a) ==
    [Name |-> a.Name,
     Source |-> [Type |-> "file", Registry |-> "", Namespace |-> RefNamespace(a.Path),
                 Name |-> RefName(a.Path), Tag |-> a.TagSymlink, ID |-> a.ID],
     Destination |-> [Type |-> "registry", Registry |-> ToMirror,
                      Namespace |-> RefNamespace(a.Path),
                      Name |-> RefName(a.Path), Tag |-> a.TagSymlink, ID |-> a.ID]]

\* the imgmirror.Mapping built for association a (lines 257-276)
Mapping(a) ==
    [Name |-> a.Name,
     Source |-> [Type |-> "file", Registry |-> "", Namespace |-> RefNamespace(a.Path),
                 Name |-> RefName(a.Path), Tag |-> a.TagSymlink, ID |-> a.ID],
     Destination |-> [Type |-> "registry", Registry |-> ToMirror,
                      Namespace |-> PathJoin(UserNamespace, RefNamespace(a.Path)),
                      Name |-> RefName(a.Path), Tag |-> a.TagSymlink, ID |-> a.ID]]

\* an error appended to errs
Err(op, image, digest) == [op |-> op, image |-> image, digest |-> digest]

AggregateError == [kind |-> "Aggregate", want |-> 0, got |-> 0, at |-> "loop"]

\* results of unpack(archiveFilePath, dest, filesInArchive) for archive entry f
UnpackOutcomes(f) ==
    IF f \notin filesInArchive
      THEN {"ErrArchiveFileNotFound"}
      ELSE {"nil"} \cup (IF CanFail THEN {"error", "ErrNotExist"} ELSE {})

FaultsOf(outcome) == IF outcome \in {"error", "ErrNotExist"} THEN 1 ELSE 0

\* unpack(config.HelmDir, o.OutputDir, filesInArchive)
UnpackCharts ==
    /\ pc = "charts"
    /\ UNCHANGED <<persistVars, inputVars, copyVars, buildVars, loadVars, deferred, logged, tmpdir, before,
                   wrote, loopVars>>
    /\ \/ /\ pc' = "assocs"
          /\ outputDir' = outputDir \cup {HelmDir}
          /\ UNCHANGED <<faults, retErr>>
       \/ /\ CanFail
          /\ faults' = faults + 1
          /\ ReturnErr(OtherError("charts"))
          /\ UNCHANGED outputDir

\* ConvertToAssociationSet, UpdatePath, ParseReference(o.ToMirror)
PrepareAssociations ==
    /\ pc = "assocs"
    /\ UNCHANGED <<persistVars, inputVars, copyVars, buildVars, loadVars, deferred, logged, tmpdir, outputDir, before,
                   wrote, errs, allMappings, imageName, valuesLeft, assoc,
                   digestsLeft, missingLayers, mmapping, unpackDirs, dirFiles,
                   driverCalls, started, fetched, pushed, custom>>
    /\ \/ /\ toMirrorType = DestinationRegistry
          /\ keysLeft' = Keys(assocs)
          /\ pc' = "image"
          /\ UNCHANGED <<faults, retErr>>
       \/ \* the conversion or UpdatePath fails
          /\ CanFail
          /\ faults' = faults + 1
          /\ ReturnErr(OtherError("assocs"))
          /\ UNCHANGED keysLeft
       \/ \* o.ToMirror does not parse or is no registry reference (181-188)
          /\ toMirrorType # DestinationRegistry
          /\ ReturnErr(OtherError("toMirror"))
          /\ UNCHANGED <<faults, keysLeft>>

\* LoopDone leaving the loop one key early
LoopDoneEarly(left) == Cardinality(left) <= 1

\* the range over assocs.Keys() has no key left
LoopDone(left) == left = {}

\* LoopResult dropping the accumulated errors
LoopResultDropped(es) == NoError

\* if len(errs) != 0 { return allMappings, utilerrors.NewAggregate(errs) }
LoopResult(es) == IF es # <<>> THEN AggregateError ELSE NoError

\* for _, imageName := range assocs.Keys(), and the check after the loop
NextImage ==
    /\ pc = "image"
    /\ UNCHANGED <<persistVars, inputVars, copyVars, buildVars, loadVars, deferred, logged, tmpdir, outputDir, before,
                   wrote, errs, allMappings, assoc, digestsLeft, missingLayers,
                   dirFiles, driverCalls, fetched, pushed, custom>>
    /\ IF LoopDone(keysLeft)
         THEN /\ IF LoopResult(errs).kind # "nil"
                   THEN ReturnErr(LoopResult(errs))
                   ELSE pc' = "signatures" /\ UNCHANGED retErr
              /\ UNCHANGED <<faults, keysLeft, imageName, valuesLeft, mmapping,
                             unpackDirs, started>>
         ELSE \E k \in keysLeft :
                /\ keysLeft' = keysLeft \ {k}
                /\ imageName' = k
                /\ started' = Append(started, k)
                /\ mmapping' = <<>>
                /\ \/ /\ valuesLeft' = Search(assocs, k)
                      /\ unpackDirs' = unpackDirs \cup {k}
                      /\ pc' = "assoc"
                      /\ UNCHANGED <<faults, retErr>>
                   \/ \* mktempDir(tmpdir) fails
                      /\ CanFail
                      /\ faults' = faults + 1
                      /\ ReturnErr(OtherError("mktempDir"))
                      /\ UNCHANGED <<valuesLeft, unpackDirs>>

\* for _, assoc := range values
NextAssoc ==
    /\ pc = "assoc"
    /\ UNCHANGED <<persistVars, inputVars, copyVars, buildVars, loadVars, deferred, logged, tmpdir, outputDir, faults,
                   retErr, before, wrote, errs, allMappings, keysLeft, imageName,
                   mmapping, unpackDirs, dirFiles, driverCalls, started, fetched, pushed, custom>>
    /\ IF valuesLeft = {}
         THEN /\ pc' = "publish"
              /\ UNCHANGED <<valuesLeft, assoc, digestsLeft, missingLayers>>
         ELSE \E a \in valuesLeft :
                /\ valuesLeft' = valuesLeft \ {a}
                /\ assoc' = a
                /\ missingLayers' = <<>>
                /\ digestsLeft' = a.ManifestDigests
                /\ pc' = "manifests"

\* ChildManifest without the look-up of the child in the association set
ChildManifestUnchecked ==
    /\ pc = "manifests" /\ digestsLeft # <<>>
    /\ UNCHANGED <<persistVars, inputVars, copyVars, buildVars, loadVars, deferred, logged, tmpdir, outputDir, retErr,
                   before, wrote, allMappings, keysLeft, imageName, valuesLeft,
                   assoc, missingLayers, mmapping, unpackDirs, driverCalls, started, fetched, pushed, pc, custom>>
    /\ digestsLeft' = Tail(digestsLeft)
    /\ LET d == Head(digestsLeft)
           f == ManifestFile(assoc.Path, d) IN
       IF FALSE
         THEN /\ errs' = Append(errs, Err("missing manifest", imageName, d))
              /\ UNCHANGED <<faults, dirFiles>>
         ELSE \/ \* os.Stat: not there, so it is unpacked
                 \E o \in UnpackOutcomes(f) :
                   /\ faults' = faults + FaultsOf(o)
                   /\ IF o = "nil"
                        THEN /\ dirFiles' = dirFiles \cup {<<imageName, f>>}
                             /\ UNCHANGED errs
                        ELSE /\ errs' = Append(errs, Err("unpack child", imageName, d))
                             /\ UNCHANGED dirFiles
              \/ \* os.Stat finds the path in the working directory
                 /\ CanFail
                 /\ faults' = faults + 1
                 /\ UNCHANGED <<errs, dirFiles>>
              \/ \* os.Stat fails otherwise
                 /\ CanFail
                 /\ faults' = faults + 1
                 /\ errs' = Append(errs, Err("stat child", imageName, d))
                 /\ UNCHANGED dirFiles

\* one child manifest of an index (lines 213-229)
ChildManifest ==
    /\ pc = "manifests" /\ digestsLeft # <<>>
    /\ UNCHANGED <<persistVars, inputVars, copyVars, buildVars, loadVars, deferred, logged, tmpdir, outputDir, retErr,
                   before, wrote, allMappings, keysLeft, imageName, valuesLeft,
                   assoc, missingLayers, mmapping, unpackDirs, driverCalls, started, fetched, pushed, pc, custom>>
    /\ digestsLeft' = Tail(digestsLeft)
    /\ LET d == Head(digestsLeft)
           f == ManifestFile(assoc.Path, d) IN
       IF ~ContainsKey(assocs, imageName, d)
         THEN /\ errs' = Append(errs, Err("missing manifest", imageName, d))
              /\ UNCHANGED <<faults, dirFiles>>
         ELSE \/ \* os.Stat: not there, so it is unpacked
                 \E o \in UnpackOutcomes(f) :
                   /\ faults' = faults + FaultsOf(o)
                   /\ IF o = "nil"
                        THEN /\ dirFiles' = dirFiles \cup {<<imageName, f>>}
                             /\ UNCHANGED errs
                        ELSE /\ errs' = Append(errs, Err("unpack child", imageName, d))
                             /\ UNCHANGED dirFiles
              \/ \* os.Stat finds the path in the working directory
                 /\ CanFail
                 /\ faults' = faults + 1
                 /\ UNCHANGED <<errs, dirFiles>>
              \/ \* os.Stat fails otherwise
                 /\ CanFail
                 /\ faults' = faults + 1
                 /\ errs' = Append(errs, Err("stat child", imageName, d))
                 /\ UNCHANGED dirFiles

\* UnpackManifest without the continue after the error
UnpackManifestGoesOn ==
    /\ pc = "manifests" /\ digestsLeft = <<>>
    /\ UNCHANGED <<persistVars, inputVars, copyVars, buildVars, loadVars, deferred, logged, tmpdir, outputDir, retErr,
                   before, wrote, allMappings, keysLeft, imageName, valuesLeft,
                   assoc, missingLayers, mmapping, unpackDirs, driverCalls, started, fetched, pushed, custom>>
    /\ LET f == ManifestFile(assoc.Path, assoc.ID) IN
       \E o \in UnpackOutcomes(f) :
         /\ faults' = faults + FaultsOf(o)
         /\ IF o = "nil"
              THEN /\ dirFiles' = dirFiles \cup {<<imageName, f>>}
                   /\ digestsLeft' = assoc.LayerDigests
                   /\ pc' = "layers"
                   /\ UNCHANGED errs
              ELSE /\ errs' = Append(errs, Err("unpack manifest", imageName, assoc.ID))
                   /\ digestsLeft' = assoc.LayerDigests
                   /\ pc' = "layers"
                   /\ UNCHANGED dirFiles

\* Unpack association main manifest (lines 232-236)
UnpackManifest ==
    /\ pc = "manifests" /\ digestsLeft = <<>>
    /\ UNCHANGED <<persistVars, inputVars, copyVars, buildVars, loadVars, deferred, logged, tmpdir, outputDir, retErr,
                   before, wrote, allMappings, keysLeft, imageName, valuesLeft,
                   assoc, missingLayers, mmapping, unpackDirs, driverCalls, started, fetched, pushed, custom>>
    /\ LET f == ManifestFile(assoc.Path, assoc.ID) IN
       \E o \in UnpackOutcomes(f) :
         /\ faults' = faults + FaultsOf(o)
         /\ IF o = "nil"
              THEN /\ dirFiles' = dirFiles \cup {<<imageName, f>>}
                   /\ digestsLeft' = assoc.LayerDigests
                   /\ pc' = "layers"
                   /\ UNCHANGED errs
              ELSE /\ errs' = Append(errs, Err("unpack manifest", imageName, assoc.ID))
                   /\ pc' = "assoc"
                   /\ UNCHANGED <<dirFiles, digestsLeft>>

\* a classification that records no missing layer
AddMissingNone(ml, l, p) == ml

\* missingLayers[l] = append(missingLayers[l], p)
AddMissing(ml, l, p) ==
    IF l \in DOMAIN ml THEN [ml EXCEPT ![l] = Append(@, p)]
                       ELSE (l :> <<p>>) @@ ml

\* one layer of the association (lines 238-255)
UnpackLayer ==
    /\ pc = "layers" /\ digestsLeft # <<>>
    /\ UNCHANGED <<persistVars, inputVars, copyVars, buildVars, loadVars, deferred, logged, tmpdir, outputDir, retErr,
                   before, wrote, allMappings, keysLeft, imageName, valuesLeft,
                   assoc, mmapping, unpackDirs, driverCalls, started, fetched, pushed, pc, custom>>
    /\ digestsLeft' = Tail(digestsLeft)
    /\ LET l == Head(digestsLeft)
           p == ImageBlobPath(assoc.Path, l) IN
       \E o \in UnpackOutcomes(BlobFile(l)) :
         /\ faults' = faults + FaultsOf(o)
         /\ CASE o = "nil" ->
                   /\ dirFiles' = dirFiles \cup {<<imageName, p>>}
                   /\ UNCHANGED <<missingLayers, errs>>
              [] o \in {"ErrArchiveFileNotFound", "ErrNotExist"} ->
                   /\ missingLayers' = AddMissing(missingLayers, l, p)
                   /\ UNCHANGED <<dirFiles, errs>>
              [] OTHER ->
                   /\ errs' = Append(errs, Err("unpack blob", imageName, l))
                   /\ UNCHANGED <<dirFiles, missingLayers>>

\* AfterMapping never calling fetchBlobs
AfterMappingNoFetch == "assoc"

\* where the association goes after its mapping was added (lines 291-297)
AfterMapping == IF DOMAIN missingLayers # {} THEN "fetch" ELSE "assoc"

\* the mapping of the association (lines 257-289)
BuildMapping ==
    /\ pc = "layers" /\ digestsLeft = <<>>
    /\ UNCHANGED <<persistVars, inputVars, copyVars, buildVars, loadVars, deferred, logged, tmpdir, outputDir, retErr,
                   before, wrote, keysLeft, imageName, valuesLeft, assoc,
                   digestsLeft, missingLayers, unpackDirs, driverCalls, started, fetched, pushed, custom>>
    /\ IF ~ParsesAsFileRef(assoc.Path)
         THEN /\ errs' = Append(errs, Err("parse source", imageName, assoc.ID))
              /\ pc' = "assoc"
              /\ UNCHANGED <<faults, allMappings, mmapping, dirFiles>>
         ELSE \E o \in (IF assoc.TagSymlink = "" THEN {"nil"}
                        ELSE UnpackOutcomes(ManifestFile(assoc.Path, assoc.TagSymlink))) :
                /\ faults' = faults + FaultsOf(o)
                /\ IF o # "nil"
                     THEN /\ errs' = Append(errs, Err("unpack symlink", imageName,
                                                      assoc.TagSymlink))
                          /\ pc' = "assoc"
                          /\ UNCHANGED <<allMappings, mmapping, dirFiles>>
                     ELSE /\ dirFiles' =
                               IF assoc.TagSymlink = "" THEN dirFiles
                               ELSE dirFiles \cup
                                    {<<imageName, ManifestFile(assoc.Path, assoc.TagSymlink)>>}
                          /\ mmapping' = Append(mmapping, Mapping(assoc))
                          /\ IF assoc.Name = imageName /\ ~ParsesAsRef(imageName)
                               THEN /\ errs' = Append(errs, Err("parse image", imageName,
                                                                assoc.ID))
                                    /\ pc' = "assoc"
                                    /\ UNCHANGED allMappings
                               ELSE /\ allMappings' =
                                         IF assoc.Name = imageName
                                           THEN allMappings \cup
                                                {[Source |-> imageName,
                                                  Destination |-> Mapping(assoc).Destination,
                                                  Type |-> assoc.Type]}
                                           ELSE allMappings
                                    /\ pc' = AfterMapping
                                    /\ UNCHANGED errs

(***************************************************************************)
(* Blob back-fill (fetchBlobs, findBlobRepo, fetchBlob).                   *)
(***************************************************************************)
\* image.GetImageFromBlob: the keys of the groups holding an association with
\* the layer; the empty set stands for the result ""
GetImageFromBlob(as, layerDigest) ==
    {a.Key : a \in {x \in as : layerDigest \in Range(x.LayerDigests)}}

\* the zero value of reference.DockerImageReference
ZeroRef == [Registry |-> "", Namespace |-> <<>>, Name |-> ""]

\* imagesource.ParseReference(srcRef).Ref for an image key; the zero reference
\* when the key does not parse
ParseReference(s) ==
    CASE s = "origin.test/lib/imgA:latest" ->
              [Registry |-> "origin.test", Namespace |-> <<"lib">>, Name |-> "imgA"]
      [] s = "origin.test/imgB:latest" ->
              [Registry |-> "origin.test", Namespace |-> <<>>, Name |-> "imgB"]
      [] s = "origin.test/imgY:latest" ->
              [Registry |-> "origin.test", Namespace |-> <<>>, Name |-> "imgY"]
      [] s = "origin.test/imgZ:latest" ->
              [Registry |-> "origin.test", Namespace |-> <<>>, Name |-> "imgZ"]
      [] OTHER -> ZeroRef

\* the references findBlobRepo may return for a layer (lines 564-572): the
\* zero reference when no image of the previous metadata holds the layer,
\* else the reference of such an image moved to the mirror registry
findBlobRepo(as, layerDigest) ==
    IF GetImageFromBlob(as, layerDigest) = {}
      THEN {ZeroRef}
      ELSE {[ParseReference(srcRef) EXCEPT
               !.Registry = ToMirror,
               !.Namespace = PathJoin(UserNamespace, @)] :
              srcRef \in GetImageFromBlob(as, layerDigest)}

\* findBlobRepo never reporting a layer absent from the previous metadata
findBlobRepoOKAlways(as, layerDigest) == TRUE

\* findBlobRepo returns no error for the layer
findBlobRepoOK(as, layerDigest) ==
    \E src \in GetImageFromBlob(as, layerDigest) : ParsesAsRef(src)

\* the layers of missingLayers for which findBlobRepo returns an error
Unlocated(meta, ml) ==
    {l \in DOMAIN ml : ~findBlobRepoOK(AssociationSet(meta.PastAssociations), l)}

\* if len(missingLayers) != 0 { o.fetchBlobs(ctx, currentMeta, missingLayers) }
FetchBlobs ==
    /\ pc = "fetch"
    /\ UNCHANGED <<persistVars, inputVars, copyVars, buildVars, loadVars, deferred, logged, tmpdir, outputDir, before,
                   wrote, errs, allMappings, keysLeft, imageName, valuesLeft,
                   assoc, digestsLeft, missingLayers, mmapping, unpackDirs,
                   driverCalls, started, pushed, custom>>
    /\ LET located == DOMAIN missingLayers \ Unlocated(currentMeta, missingLayers)
           asSet == AssociationSet(currentMeta.PastAssociations) IN
       \/ \* fetchBlob is called for every layer, with the reference findBlobRepo
          \* returned (the zero reference after an error, line 455); it fails
          \* for the layers in failed and for every layer that was not located;
          \* with ctx cancelled no request of fetchBlob succeeds
          \E failed \in SUBSET located :
            /\ IF ctxDone
                 THEN failed = located
                 ELSE Cardinality(failed) <= MaxFaults - faults
            /\ \E imgRef \in [DOMAIN missingLayers ->
                                UNION {findBlobRepo(asSet, l) : l \in DOMAIN missingLayers}] :
                 /\ \A l \in DOMAIN missingLayers : imgRef[l] \in findBlobRepo(asSet, l)
                 /\ fetched' = fetched \cup {imgRef[l] : l \in DOMAIN missingLayers}
            /\ faults' = faults + (IF ctxDone THEN 0 ELSE Cardinality(failed))
            /\ dirFiles' = dirFiles \cup
                 {<<imageName, p>> :
                    p \in UNION {Range(missingLayers[l]) : l \in located \ failed}}
            /\ IF failed = {} /\ located = DOMAIN missingLayers
                 THEN pc' = "assoc" /\ UNCHANGED retErr
                 ELSE ReturnErr(OtherError("fetchBlobs"))
       \/ \* image.NewContext or ConvertToAssociationSet fails
          /\ CanFail
          /\ faults' = faults + 1
          /\ ReturnErr(OtherError("fetchBlobs"))
          /\ UNCHANGED <<dirFiles, fetched>>

(***************************************************************************)
(* Publish: the driver, the end of the run.                                *)
(***************************************************************************)
\* genOpts.Run() of the image mirror library with genOpts.DryRun = o.DryRun:
\* the images at the destination after mirroring image; planning only pushes
\* nothing
MirrorRun(dryRun, done, image) == IF dryRun THEN done ELSE done \cup {image}

\* PublishImage calling the driver also without any mapping
PublishImageEmpty ==
    /\ pc = "publish"
    /\ pc' = "imageEnd"
    /\ UNCHANGED <<persistVars, inputVars, copyVars, buildVars, loadVars, deferred, logged, tmpdir, outputDir, retErr,
                   before, wrote, allMappings, keysLeft, imageName, valuesLeft,
                   assoc, digestsLeft, missingLayers, mmapping, unpackDirs,
                   dirFiles, started, fetched, custom>>
    /\ IF FALSE
         THEN UNCHANGED <<faults, errs, driverCalls, pushed>>
         ELSE /\ driverCalls' = Append(driverCalls,
                     [image |-> imageName, mappings |-> mmapping,
                      files |-> {x[2] : x \in {y \in dirFiles : y[1] = imageName}}])
              /\ \/ /\ pushed' = MirrorRun(DryRun, pushed, imageName)
                    /\ UNCHANGED <<faults, errs>>
                 \/ \* genOpts.Validate or genOpts.Run fails; what a failed
                    \* Run pushed before it failed is not recorded
                    /\ CanFail
                    /\ faults' = faults + 1
                    /\ errs' = Append(errs, Err("publishImage", imageName, ""))
                    /\ UNCHANGED pushed

\* PublishImage returning the driver's error instead of accumulating it
PublishImageFatal ==
    /\ pc = "publish"
    /\ UNCHANGED <<persistVars, inputVars, copyVars, buildVars, loadVars, deferred, logged, tmpdir, outputDir,
                   before, wrote, allMappings, keysLeft, imageName, valuesLeft,
                   assoc, digestsLeft, missingLayers, mmapping, unpackDirs,
                   dirFiles, started, fetched, errs, custom>>
    /\ IF mmapping = <<>>
         THEN pc' = "imageEnd" /\ UNCHANGED <<faults, driverCalls, retErr, pushed>>
         ELSE /\ driverCalls' = Append(driverCalls,
                     [image |-> imageName, mappings |-> mmapping,
                      files |-> {x[2] : x \in {y \in dirFiles : y[1] = imageName}}])
              /\ \/ /\ pc' = "imageEnd"
                    /\ pushed' = MirrorRun(DryRun, pushed, imageName)
                    /\ UNCHANGED <<faults, retErr>>
                 \/ /\ CanFail
                    /\ faults' = faults + 1
                    /\ ReturnErr(OtherError("publishImage"))
                    /\ UNCHANGED pushed

\* Mirror all mappings for this image (lines 299-304)
PublishImage ==
    /\ pc = "publish"
    /\ pc' = "imageEnd"
    /\ UNCHANGED <<persistVars, inputVars, copyVars, buildVars, loadVars, deferred, logged, tmpdir, outputDir, retErr,
                   before, wrote, allMappings, keysLeft, imageName, valuesLeft,
                   assoc, digestsLeft, missingLayers, mmapping, unpackDirs,
                   dirFiles, started, fetched, custom>>
    /\ IF mmapping = <<>>
         THEN UNCHANGED <<faults, errs, driverCalls, pushed>>
         ELSE /\ driverCalls' = Append(driverCalls,
                     [image |-> imageName, mappings |-> mmapping,
                      files |-> {x[2] : x \in {y \in dirFiles : y[1] = imageName}}])
              /\ \/ /\ pushed' = MirrorRun(DryRun, pushed, imageName)
                    /\ UNCHANGED <<faults, errs>>
                 \/ \* genOpts.Validate or genOpts.Run fails; what a failed
                    \* Run pushed before it failed is not recorded
                    /\ CanFail
                    /\ faults' = faults + 1
                    /\ errs' = Append(errs, Err("publishImage", imageName, ""))
                    /\ UNCHANGED pushed

\* CleanUnpackDir paying no attention to o.SkipCleanup
CleanUnpackDirAlways ==
    /\ pc = "imageEnd"
    /\ UNCHANGED <<persistVars, inputVars, copyVars, buildVars, loadVars, deferred, logged, tmpdir, outputDir, retErr,
                   before, wrote, errs, allMappings, keysLeft, imageName,
                   valuesLeft, assoc, digestsLeft, missingLayers, mmapping,
                   driverCalls, started, fetched, pushed, custom>>
    /\ IF FALSE
         THEN pc' = "image" /\ UNCHANGED <<faults, unpackDirs, dirFiles>>
         ELSE \/ /\ unpackDirs' = unpackDirs \ {imageName}
                 /\ dirFiles' = {x \in dirFiles : x[1] # imageName}
                 /\ pc' = "image"
                 /\ UNCHANGED faults
              \/ \* os.RemoveAll fails: logrus.Fatal ends the process
                 /\ CanFail
                 /\ faults' = faults + 1
                 /\ pc' = "exited"
                 /\ UNCHANGED <<unpackDirs, dirFiles>>

\* CleanUnpackDir that leaves the directory of the image in place
CleanUnpackDirNever ==
    /\ pc = "imageEnd"
    /\ UNCHANGED <<persistVars, inputVars, copyVars, buildVars, loadVars, deferred, logged, tmpdir, outputDir, retErr,
                   before, wrote, errs, allMappings, keysLeft, imageName,
                   valuesLeft, assoc, digestsLeft, missingLayers, mmapping,
                   driverCalls, started, fetched, pushed, custom>>
    /\ IF TRUE
         THEN pc' = "image" /\ UNCHANGED <<faults, unpackDirs, dirFiles>>
         ELSE \/ /\ unpackDirs' = unpackDirs \ {imageName}
                 /\ dirFiles' = {x \in dirFiles : x[1] # imageName}
                 /\ pc' = "image"
                 /\ UNCHANGED faults
              \/ \* os.RemoveAll fails: logrus.Fatal ends the process
                 /\ CanFail
                 /\ faults' = faults + 1
                 /\ pc' = "exited"
                 /\ UNCHANGED <<unpackDirs, dirFiles>>

\* Cleanup temp image processing workspace (lines 306-309)
CleanUnpackDir ==
    /\ pc = "imageEnd"
    /\ UNCHANGED <<persistVars, inputVars, copyVars, buildVars, loadVars, deferred, logged, tmpdir, outputDir, retErr,
                   before, wrote, errs, allMappings, keysLeft, imageName,
                   valuesLeft, assoc, digestsLeft, missingLayers, mmapping,
                   driverCalls, started, fetched, pushed, custom>>
    /\ IF SkipCleanup
         THEN pc' = "image" /\ UNCHANGED <<faults, unpackDirs, dirFiles>>
         ELSE \/ /\ unpackDirs' = unpackDirs \ {imageName}
                 /\ dirFiles' = {x \in dirFiles : x[1] # imageName}
                 /\ pc' = "image"
                 /\ UNCHANGED faults
              \/ \* os.RemoveAll fails: logrus.Fatal ends the process
                 /\ CanFail
                 /\ faults' = faults + 1
                 /\ pc' = "exited"
                 /\ UNCHANGED <<unpackDirs, dirFiles>>

\* o.unpackReleaseSignatures(o.OutputDir, filesInArchive)
UnpackReleaseSignatures ==
    /\ pc = "signatures"
    /\ UNCHANGED <<persistVars, inputVars, copyVars, buildVars, loadVars, deferred, logged, tmpdir, outputDir, before,
                   wrote, loopVars>>
    /\ \/ pc' = "custom" /\ UNCHANGED <<faults, retErr>>
       \/ /\ CanFail
          /\ faults' = faults + 1
          /\ ReturnErr(OtherError("signatures"))

\* the mappings rebuildCatalogs and buildGraphImage return
CatalogMapping ==
    [Source |-> "catalog", Type |-> "operatorCatalog",
     Destination |-> [Type |-> "registry", Registry |-> ToMirror, Namespace |-> UserNamespace,
                      Name |-> "catalog", Tag |-> "latest", ID |-> ""]]

GraphMapping ==
    [Source |-> "graph-image", Type |-> "cincinnatiGraph",
     Destination |-> [Type |-> "registry", Registry |-> ToMirror, Namespace |-> UserNamespace,
                      Name |-> "graph-image", Tag |-> "latest", ID |-> ""]]

CustomMappings == {CatalogMapping, GraphMapping}

\* the points of processCustomImages that can return an error; "" is none
CustomSteps == <<"unpackCatalog", "rebuildCatalogs", "unpackRelease", "buildGraphImage">>

\* the outcomes of processCustomImages: catalog and release are the values
\* of found that unpackCatalog and unpackRelease return (false with an error,
\* and when the call is not reached), failed the step that returns an error
CustomOutcomes ==
    {o \in [catalog : BOOLEAN, release : BOOLEAN, failed : Range(CustomSteps) \cup {""}] :
        /\ o.failed = "unpackCatalog" => ~o.catalog /\ ~o.release
        /\ o.failed = "rebuildCatalogs" => o.catalog /\ ~o.release
        /\ o.failed = "unpackRelease" => ~o.release
        /\ o.failed = "buildGraphImage" => o.release}

\* processCustomImages invoking both builders whatever was found
processCustomImagesBoth(catalog, release, failed) ==
    [calls |-> <<"rebuildCatalogs", "buildGraphImage">>,
     mappings |-> CustomMappings,
     err |-> failed # ""]

\* processCustomImages (lines 335-369): the builders invoked, in order, the
\* allMappings returned and whether err is non-nil
processCustomImages(catalog, release, failed) ==
    LET ctlg == IF catalog THEN <<"rebuildCatalogs">> ELSE <<>>
        ctlgRefs == IF catalog THEN {CatalogMapping} ELSE {} IN
    CASE failed = "unpackCatalog" ->
              [calls |-> <<>>, mappings |-> {}, err |-> TRUE]
      [] failed = "rebuildCatalogs" ->
              [calls |-> <<"rebuildCatalogs">>, mappings |-> {}, err |-> TRUE]
      [] failed = "unpackRelease" ->
              [calls |-> ctlg, mappings |-> ctlgRefs, err |-> TRUE]
      [] failed = "buildGraphImage" ->
              [calls |-> ctlg \o <<"buildGraphImage">>, mappings |-> ctlgRefs, err |-> TRUE]
      [] OTHER ->
              [calls |-> ctlg \o (IF release THEN <<"buildGraphImage">> ELSE <<>>),
               mappings |-> ctlgRefs \cup (IF release THEN {GraphMapping} ELSE {}),
               err |-> FALSE]

\* mappings, err := o.processCustomImages(ctx, tmpdir, filesInArchive);
\* if err != nil { return allMappings, err }; allMappings.Merge(mappings)
\* (lines 321-325)
ProcessCustomImages ==
    /\ pc = "custom"
    /\ UNCHANGED <<persistVars, inputVars, copyVars, buildVars, loadVars, deferred, logged, tmpdir, outputDir, before,
                   wrote, errs, keysLeft, imageName, valuesLeft, assoc,
                   digestsLeft, missingLayers, mmapping, unpackDirs, dirFiles,
                   driverCalls, started, fetched, pushed>>
    /\ \E o \in CustomOutcomes :
         LET res == processCustomImages(o.catalog, o.release, o.failed) IN
         /\ o.failed # "" => CanFail
         /\ faults' = faults + (IF o.failed # "" THEN 1 ELSE 0)
         /\ custom' = [ran |-> TRUE, catalog |-> o.catalog, release |-> o.release,
                       calls |-> res.calls, failed |-> o.failed]
         /\ IF res.err
              THEN /\ ReturnErr(OtherError("custom"))
                   /\ UNCHANGED allMappings
              ELSE /\ allMappings' = allMappings \cup res.mappings
                   /\ pc' = "commit"
                   /\ UNCHANGED retErr

\* localDirBackend.WriteMetadata
LocalBackendWrite ==
    /\ backend = "local"
    /\ UNCHANGED registry
    /\ \/ /\ localFile' = Holding(Marshal(incomingMeta))
          /\ wrote' = TRUE
          /\ retErr' = NoError
          /\ UNCHANGED faults
       \/ /\ CanFail
          /\ faults' = faults + 1
          /\ retErr' = OtherError("commit")
          /\ UNCHANGED <<localFile, wrote>>

\* RegistryBackendWrite dropping the error of the push
RegistryBackendWritePushIgnored ==
    /\ backend = "registry"
    /\ \/ /\ localFile' = Holding(Marshal(incomingMeta))
          /\ registry' = [registry EXCEPT ![newMetadataImage(incomingMeta.Uid)] =
                                              Holding(Marshal(incomingMeta))]
          /\ wrote' = TRUE
          /\ retErr' = NoError
          /\ UNCHANGED faults
       \/ /\ CanFail
          /\ faults' = faults + 1
          /\ retErr' = OtherError("commit")
          /\ UNCHANGED <<registry, localFile, wrote>>
       \/ /\ CanFail
          /\ faults' = faults + 1
          /\ localFile' = Holding(Marshal(incomingMeta))
          /\ wrote' = TRUE
          /\ retErr' = NoError
          /\ UNCHANGED registry

\* registryBackend.WriteMetadata: WriteObject writes the local buffer, then
\* pushImage pushes a single-layer image holding the document
RegistryBackendWrite ==
    /\ backend = "registry"
    /\ \/ /\ ~ctxDone
          /\ localFile' = Holding(Marshal(incomingMeta))
          /\ registry' = [registry EXCEPT ![newMetadataImage(incomingMeta.Uid)] =
                                              Holding(Marshal(incomingMeta))]
          /\ wrote' = TRUE
          /\ retErr' = NoError
          /\ UNCHANGED faults
       \/ \* b.localDirBackend.WriteObject fails
          /\ CanFail
          /\ faults' = faults + 1
          /\ retErr' = OtherError("commit")
          /\ UNCHANGED <<registry, localFile, wrote>>
       \/ \* crane.Push fails; it does when ctx is cancelled (crane.WithContext)
          /\ CanFail \/ ctxDone
          /\ faults' = IF ctxDone THEN faults ELSE faults + 1
          /\ localFile' = Holding(Marshal(incomingMeta))
          /\ retErr' = OtherError("commit")
          /\ UNCHANGED <<registry, wrote>>

\* Replace old metadata with new metadata (lines 327-332)
WriteMetadata ==
    /\ pc = "commit"
    /\ pc' = "return"
    /\ UNCHANGED <<imageRuns, runs, onlySingleUse, inputVars, copyVars, buildVars, loadVars, deferred, logged, tmpdir, outputDir, before,
                   loopVars>>
    /\ (LocalBackendWrite \/ RegistryBackendWrite)

\* Publish returns: the deferred calls run, last registered first
Return ==
    /\ pc = "return"
    /\ UNCHANGED <<imageRuns, runs, onlySingleUse, inputVars, copyVars, buildVars, loadVars, deferred, retErr, outputDir,
                   before, wrote, errs, allMappings, keysLeft, imageName,
                   valuesLeft, assoc, digestsLeft, missingLayers, mmapping,
                   driverCalls, started, fetched, pushed, custom>>
    /\ \E metaFails, tmpFails \in BOOLEAN :
         /\ metaFails => "backend.Cleanup" \in Range(deferred)
         /\ tmpFails => "cleanup" \in Range(deferred)
         /\ faults' = faults + (IF metaFails THEN 1 ELSE 0) + (IF tmpFails THEN 1 ELSE 0)
         /\ faults' <= MaxFaults
         /\ logged' = IF metaFails THEN logged \cup {"backend.Cleanup"} ELSE logged
         \* backend.Cleanup(ctx, config.MetadataBasePath); its error is logged.
         \* registryBackend.Cleanup deletes the image, then cleans the local file
         /\ IF "backend.Cleanup" \in Range(deferred) /\ ~metaFails
              THEN /\ localFile' = Absent
                   /\ registry' = IF backend = "registry"
                                    THEN [registry EXCEPT
                                            ![newMetadataImage(incomingMeta.Uid)] = Absent]
                                    ELSE registry
              ELSE UNCHANGED <<registry, localFile>>
         \* cleanup(): os.RemoveAll(tmpdir), logrus.Fatal on error
         /\ IF "cleanup" \in Range(deferred) /\ ~tmpFails
              THEN tmpdir' = FALSE /\ unpackDirs' = {} /\ dirFiles' = {}
              ELSE UNCHANGED <<tmpdir, unpackDirs, dirFiles>>
         /\ pc' = IF tmpFails THEN "exited" ELSE "done"

(***************************************************************************)
(* The specification.                                                      *)
(***************************************************************************)
\* pcs of the per-image loop (lines 204-309)
InLoop == pc \in {"image", "assoc", "manifests", "layers", "fetch", "publish",
                  "imageEnd"}

\* a file that does not exist, and one with content c
NoFile == [present |-> FALSE, data |-> <<>>]

File(c) == [present |-> TRUE, data |-> c]

\* no fetchBlob call is modelled byte by byte
NoCopy ==
    /\ fpc = "idle"
    /\ blob = <<>>
    /\ rcPos = 0
    /\ opens = 0
    /\ dstPaths = <<>>
    /\ dstLeft = <<>>
    /\ dstFiles = <<>>
    /\ dstBefore = <<>>

\* the caller cancels ctx while the per-image loop is running
Cancel ==
    /\ InLoop
    /\ ~ctxDone
    /\ ctxDone' = TRUE
    /\ UNCHANGED <<persistVars, copyVars, buildVars, pc, SkipCleanup, DryRun, toMirrorType, filesInArchive, incomingMeta,
                   loadVars, deferred, logged, tmpdir, outputDir, faults, retErr, before,
                   wrote, loopVars>>

Init ==
    /\ registry = [r \in ImageRefs |-> Absent]
    /\ localFile = Absent
    /\ imageRuns = 0
    /\ runs = 0
    /\ onlySingleUse = TRUE
    /\ pc = "idle"
    /\ SkipCleanup = FALSE
    /\ DryRun = FALSE
    /\ ctxDone = FALSE
    /\ toMirrorType = "registry"
    /\ outputDir = {}
    /\ filesInArchive = {}
    /\ incomingMeta = ZeroMeta
    /\ currentMeta = ZeroMeta
    /\ backend = ""
    /\ readErr = ""
    /\ manifestAns = NoAnswer
    /\ deferred = <<>>
    /\ logged = {}
    /\ tmpdir = FALSE
    /\ faults = 0
    /\ retErr = NoError
    /\ before = [registry |-> registry, localFile |-> localFile]
    /\ wrote = FALSE
    /\ errs = <<>>
    /\ allMappings = {}
    /\ keysLeft = {}
    /\ imageName = ""
    /\ valuesLeft = {}
    /\ assoc = NoAssoc
    /\ digestsLeft = <<>>
    /\ missingLayers = <<>>
    /\ mmapping = <<>>
    /\ unpackDirs = {}
    /\ dirFiles = {}
    /\ driverCalls = <<>>
    /\ started = <<>>
    /\ fetched = {}
    /\ pushed = {}
    /\ custom = NoCustom
    /\ NoBuild
    /\ NoCopy

Next ==
    \/ CreateWorkspace
    \/ UnpackImageSet
    \/ SelectBackend
    \/ ReadCurrentMetadata
    \/ CheckSequence
    \/ UnpackCharts
    \/ PrepareAssociations
    \/ NextImage
    \/ NextAssoc
    \/ ChildManifest
    \/ UnpackManifest
    \/ UnpackLayer
    \/ BuildMapping
    \/ FetchBlobs
    \/ PublishImage
    \/ CleanUnpackDir
    \/ UnpackReleaseSignatures
    \/ ProcessCustomImages
    \/ WriteMetadata
    \/ Return
    \/ Cancel

Spec == Init /\ [][Next]_vars

(***************************************************************************)
(* Properties of Publish.                                                  *)
(***************************************************************************)
\* the run is over: Publish returned, or the process exited in a deferred call
Ended == pc \in {"return", "done", "exited"}

\* what the backend selected for this run held when the run began
HeldBefore ==
    IF backend = "registry"
      THEN before.registry[newMetadataImage(incomingMeta.Uid)]
      ELSE before.localFile

\* the guard has been evaluated and let the run through
PassedGuard == pc # "guard" /\ retErr.at \notin {"read", "guard"}

\* the guard has been evaluated and ended the run with the given error
RejectedWith(e) == retErr = e /\ Ended

\* C1: when current metadata is read (sequence N >= 1), an incoming archive
\* of sequence M passes the guard if and only if M = N + 1; otherwise the run
\* ends with SequenceError{want N + 1, got M}.
C1_SequenceGuard ==
    (readErr = "nil" /\ pc # "guard") =>
        /\ HeldBefore.present
        /\ currentMeta = Unmarshal(HeldBefore.data)
        /\ currentMeta.Sequence >= 1
        /\ IF incomingMeta.Sequence = currentMeta.Sequence + 1
             THEN PassedGuard
             ELSE RejectedWith(SequenceError(currentMeta.Sequence + 1,
                                             incomingMeta.Sequence))

\* S2 of the specification: sequence 1 published again over sequence 1
C1_Witness ==
    /\ pc = "done"
    /\ readErr = "nil"
    /\ currentMeta.Sequence = 1
    /\ incomingMeta.Sequence = 1
    /\ retErr = SequenceError(2, 1)

\* C2: when the read reports ErrMetadataNotExist the archive passes the guard
\* if and only if its sequence is 1, otherwise the run ends with
\* SequenceError{want 1, got N}; any other read error is returned as it is.
C2_FirstRun ==
    /\ (readErr = "ErrMetadataNotExist" /\ pc # "guard") =>
          IF incomingMeta.Sequence = 1
            THEN PassedGuard
            ELSE RejectedWith(SequenceError(1, incomingMeta.Sequence))
    /\ (readErr = "error" /\ pc # "guard") =>
          RejectedWith(OtherError("read")) /\ ~wrote

C2_Witness ==
    /\ pc = "done"
    /\ readErr = "ErrMetadataNotExist"
    /\ ~HeldBefore.present
    /\ retErr = SequenceError(1, 2)

\* current metadata of another Uid exists where this run looks for it or,
\* in stateful mode, under the image name of the other workspace
DivergentCurrent ==
    \/ /\ backend = "local"
       /\ readErr = "nil"
       /\ currentMeta.Uid # incomingMeta.Uid
    \/ /\ backend = "registry"
       /\ readErr = "ErrMetadataNotExist"
       /\ \E u \in Uids \ {incomingMeta.Uid} :
             before.registry[newMetadataImage(u)].present

\* C3: an incoming archive whose Uid differs from the Uid of the current
\* metadata is treated as a new workspace: it passes the guard if and only
\* if its sequence is 1, in stateful and stateless mode alike, and no
\* error is returned for the mismatch itself.
C3_UidDivergence ==
    (pc # "guard" /\ DivergentCurrent) =>
        (incomingMeta.Sequence = 1) <=> PassedGuard

\* the stateful half of C3, which the code satisfies
C3_StatefulOnly ==
    (pc # "guard" /\ DivergentCurrent /\ backend = "registry") =>
        (incomingMeta.Sequence = 1) <=> PassedGuard

\* the sequence held by a stored metadata image, 0 when there is none
SequenceOf(h) == IF h.present THEN Unmarshal(h.data).Sequence ELSE 0

C4_Step ==
    \A r \in ImageRefs :
        registry'[r] # registry[r] =>
            /\ pc = "commit" /\ pc' = "return"
            /\ r = newMetadataImage(incomingMeta.Uid)
            /\ retErr' = NoError
            /\ registry'[r] = Holding(Marshal(incomingMeta))
            /\ SequenceOf(registry'[r]) = SequenceOf(registry[r]) + 1

C4_Inv ==
    /\ \A r \in ImageRefs :
          /\ SequenceOf(registry[r]) <= SequenceOf(before.registry[r]) + 1
          /\ SequenceOf(registry[r]) >= SequenceOf(before.registry[r])
          /\ registry[r] # before.registry[r] =>
                /\ retErr = NoError
                /\ pc \in {"return", "done", "exited"}
    \* the archive a stateful run published is not the one held before
    /\ (pc = "done" /\ retErr = NoError /\ backend = "registry") =>
          SequenceOf(HeldBefore) + 1 = incomingMeta.Sequence

C5_AggregateAtLoopEnd ==
    /\ errs # <<>> =>
          /\ pc \notin {"signatures", "custom", "commit"}
          /\ ~wrote
          /\ retErr.at \notin {"signatures", "custom", "commit"}
          /\ pc = "done" => retErr.kind # "nil"
    /\ retErr = AggregateError =>
          /\ errs # <<>>
          /\ keysLeft = {}
          /\ Ended
          /\ ~SkipCleanup => unpackDirs = {}

C5_Witness ==
    /\ pc = "return"
    /\ retErr = AggregateError
    /\ Len(errs) = 1
    /\ Len(started) = 2
    /\ ~SkipCleanup
    /\ unpackDirs = {}

\* every association of every image key was mapped and handed to the driver
AllHandedToDriver ==
    \A a \in assocs :
        \E i \in DOMAIN driverCalls :
            /\ driverCalls[i].image = a.Key
            /\ \E j \in DOMAIN driverCalls[i].mappings :
                  driverCalls[i].mappings[j] = Mapping(a)

\* C6: the metadata commit comes strictly after every mapping of every image
\* was handed to the Publish Driver.
C6_CommitAfterPublish ==
    (pc = "commit" \/ wrote \/ retErr.at = "commit") => AllHandedToDriver

C6_Witness ==
    /\ wrote
    /\ pc = "done"
    /\ Cardinality(Keys(assocs)) = 2
    /\ Len(driverCalls) = 2

\* C7: Publish returns nil only after WriteMetadata succeeded; in stateful
\* mode the metadata image then holds the incoming document, so the stored
\* sequence is the incoming one.
C7_NilOnlyAfterCommit ==
    (pc = "done" /\ retErr = NoError) =>
        /\ wrote
        /\ backend = "registry" =>
              LET img == registry[newMetadataImage(incomingMeta.Uid)]
              IN  /\ img.present
                  /\ Unmarshal(img.data) = incomingMeta
                  /\ SequenceOf(img) = incomingMeta.Sequence

C7_Witness ==
    /\ pc = "done"
    /\ retErr = NoError
    /\ backend = "registry"
    /\ incomingMeta.Sequence = 2
    /\ incomingMeta.PastAssociations # "none"

\* C8 as stated: a run rejected by the sequence guard leaves the persisted
\* metadata unchanged, whichever backend mode is in effect.
C8_RejectedRunChangesNothing ==
    (pc = "done" /\ retErr.kind = "SequenceError") =>
        /\ registry = before.registry
        /\ localFile = before.localFile

\* C8 (amended): a run rejected by the sequence guard writes no metadata and
\* leaves every metadata image unchanged; in stateless mode the deferred
\* backend.Cleanup removes the metadata file, which survives only if that
\* removal fails.
C8_RejectedRunWritesNothing ==
    (pc = "done" /\ retErr.kind = "SequenceError") =>
        /\ ~wrote
        /\ registry = before.registry
        /\ backend = "registry" => localFile = IF readErr = "nil"
                                                  THEN HeldBefore
                                                  ELSE before.localFile
        /\ backend = "local" =>
              \/ localFile = Absent
              \/ localFile = before.localFile /\ faults > 0

C8_Witness ==
    /\ pc = "done"
    /\ retErr.kind = "SequenceError"
    /\ backend = "local"
    /\ before.localFile.present
    /\ localFile = Absent

\* a missing layer that no association of the current metadata contains
NoSource(l) ==
    \A a \in AssociationSet(currentMeta.PastAssociations) :
        l \notin Range(a.LayerDigests)

\* the run ended inside the per-image loop
EndedInLoop ==
    /\ Ended
    /\ started # <<>>
    /\ retErr.at \notin {"loop", "signatures", "custom", "commit"}
    /\ ~wrote

\* C9 as stated: only a layer for which no source is found ends the loop
\* early; every other error is accumulated.
C9_OnlyNoSourceEndsLoop ==
    EndedInLoop =>
        /\ retErr.at = "fetchBlobs"
        /\ \E l \in DOMAIN missingLayers : NoSource(l)

C9_Inv ==
    /\ EndedInLoop =>
          \/ retErr.at \in {"mktempDir", "fetchBlobs"}
          \/ pc = "exited" /\ retErr = NoError
    \* a run that left the loop at its end went through every image key
    /\ (pc \in {"signatures", "custom", "commit"}
            \/ retErr.at \in {"loop", "signatures", "custom", "commit"}
            \/ wrote) =>
          /\ keysLeft = {}
          /\ Range(started) = Keys(assocs)

\* an accumulated error leaves the run inside the loop
C9_Step ==
    errs' # errs /\ errs' # <<>> =>
        /\ Len(errs') = Len(errs) + 1
        /\ pc' \in {"manifests", "layers", "assoc", "imageEnd"}
        /\ retErr' = retErr
        /\ keysLeft' = keysLeft

\* C9 (amended): the loop is ended early by a failed creation of the
\* per-image directory, by any error of fetchBlobs (no source, or a failed
\* fetch or copy) and by a failed removal of the per-image directory, which
\* exits the process; every other error is accumulated and the loop goes on
\* through every image key.
C9_FatalAndAccumulated == []C9_Inv /\ [][C9_Step]_vars

C9_Witness ==
    /\ pc = "done"
    /\ retErr = OtherError("fetchBlobs")
    /\ missingLayers # <<>>
    /\ \A l \in DOMAIN missingLayers : ~NoSource(l)
    /\ keysLeft # {}

\* image key k has an association with a layer that the archive lacks and
\* that no association of the current metadata contains
UnsourcedMissing(k) ==
    /\ pc \notin {"idle", "unpack", "backend", "read", "guard"}
    /\ PassedGuard
    /\ \E a \in Search(assocs, k) :
          \E i \in DOMAIN a.LayerDigests :
              /\ BlobFile(a.LayerDigests[i]) \notin filesInArchive
              /\ NoSource(a.LayerDigests[i])

\* the run fails and commits nothing
RunFails ==
    /\ ~wrote
    /\ pc \notin {"signatures", "custom", "commit"}
    /\ pc = "done" => retErr.kind # "nil"

\* C10 as stated: a missing layer without a source in the current metadata
\* fails the run: the image is not handed to the driver, no later image is
\* processed and the metadata is not committed.
C10_NoSourceEndsRun ==
    \A k \in Keys(assocs) :
        UnsourcedMissing(k) =>
            /\ RunFails
            /\ \A i \in DOMAIN driverCalls : driverCalls[i].image # k
            /\ \A i \in DOMAIN started : started[i] = k => i = Len(started)

C10_Inv ==
    /\ \A k \in Keys(assocs) : UnsourcedMissing(k) => RunFails
    /\ retErr.at = "fetchBlobs" =>
          /\ Ended /\ ~wrote
          /\ started[Len(started)] = imageName
          /\ \A i \in DOMAIN driverCalls : driverCalls[i].image # imageName

\* the back-fill of an association with such a layer ends the run
C10_Step ==
    (pc = "fetch" /\ pc' # pc /\ \E l \in DOMAIN missingLayers : NoSource(l)) =>
        /\ pc' = "return"
        /\ retErr' = OtherError("fetchBlobs")

\* C10 (amended): a missing layer without a source in the current metadata
\* fails the run and the metadata is not committed; when its association
\* reaches the back-fill the run ends there, the image is not handed to the
\* driver and no later image is processed.
C10_NoSourceFailsRun == []C10_Inv /\ [][C10_Step]_vars

C10_Witness ==
    /\ pc = "done"
    /\ retErr = OtherError("fetchBlobs")
    /\ \E l \in DOMAIN missingLayers : NoSource(l)
    /\ keysLeft # {}
    /\ \A i \in DOMAIN driverCalls : driverCalls[i].image # imageName

\* the blob files an image needs: one for every layer of every association
BlobsOf(k) ==
    UNION {{ImageBlobPath(a.Path, l) : l \in Range(a.LayerDigests)} :
             a \in Search(assocs, k)}

\* no error was recorded for image key k
NoErrorFor(k) == \A j \in DOMAIN errs : errs[j].image # k

TopLevel == {a \in assocs : a.Name = a.Key}

\* the destination stated for a top-level association: ToMirror, the user
\* namespace joined to the association's namespace, its name, tag and ID
ExpectedDestination(a) ==
    [Type |-> "registry", Registry |-> ToMirror,
     Namespace |-> UserNamespace \o SubSeq(a.Path, 1, Len(a.Path) - 1),
     Name |-> a.Path[Len(a.Path)], Tag |-> a.TagSymlink, ID |-> a.ID]

\* the entries of allMappings that belong to top-level association a
EntriesFor(a) == {m \in allMappings : m.Source = a.Key}

WellFormedEntry(m) ==
    \E a \in TopLevel :
        /\ m.Source = a.Key
        /\ m.Destination = ExpectedDestination(a)
        /\ m.Type = a.Type

\* C12: the allMappings returned by a successful Publish holds exactly one
\* entry for every top-level association (source the key, destination under
\* ToMirror and the user namespace joined to the association's namespace,
\* with its name, ID, tag and Type); at any time every entry that does not
\* come from processCustomImages is such a mapping, and child manifests add
\* none.
C12_MappingFormation ==
    /\ \A m \in allMappings \ CustomMappings : WellFormedEntry(m)
    /\ \A a \in TopLevel : Cardinality(EntriesFor(a)) <= 1
    /\ (pc = "done" /\ retErr = NoError) =>
          \A a \in TopLevel : Cardinality(EntriesFor(a)) = 1

C12_Witness ==
    /\ pc = "done"
    /\ retErr = NoError
    /\ incomingMeta.Associations = "mixed"
    /\ Cardinality(allMappings) = 2
    /\ \E m \in allMappings : m.Destination.Namespace = <<"ns", "team">>

\* the registries named by the image keys of the previous metadata
OriginRegistries ==
    {ParseReference(a.Key).Registry :
        a \in AssociationSet(currentMeta.PastAssociations)} \ {""}

\* reference r lies in the mirror registry, under the user namespace
AtDestination(r) ==
    /\ r.Registry = ToMirror
    /\ Len(r.Namespace) >= Len(UserNamespace)
    /\ SubSeq(r.Namespace, 1, Len(UserNamespace)) = UserNamespace

\* C13: the reference used to open a missing blob always has the mirror
\* registry as registry and the user namespace joined with the source
\* namespace as namespace; no blob is opened from an origin registry.
C13_BackfillFromDestination ==
    \A r \in fetched : AtDestination(r) /\ r.Registry \notin OriginRegistries

\* what the code does satisfy: no reference names an origin registry, and a
\* reference that findBlobRepo returned without error lies at the destination
C13_NeverFromOrigin ==
    \A r \in fetched :
        /\ r.Registry \notin OriginRegistries
        /\ r # ZeroRef => AtDestination(r)

C13_Located ==
    /\ pc = "assoc"
    /\ [Registry |-> ToMirror, Namespace |-> <<"ns", "lib">>, Name |-> "imgA"] \in fetched

FilesIn(k) == {x[2] : x \in {y \in dirFiles : y[1] = k}}

\* C15: with SkipCleanup unset, whenever Publish returns after the workspace
\* was created (nil, aggregate error or any other error, also one raised in
\* the middle of an image) neither the run temp directory nor any per-image
\* temp directory exists any more.
C15_TempDirsReleased ==
    (pc = "done" /\ ~SkipCleanup) =>
        /\ ~tmpdir
        /\ unpackDirs = {}
        /\ dirFiles = {}

\* a run ended by fetchBlobs in the middle of its second image
C15_Witness ==
    /\ pc = "done"
    /\ ~SkipCleanup
    /\ retErr = OtherError("fetchBlobs")
    /\ Len(started) = 2
    /\ Len(driverCalls) = 1
    /\ ~tmpdir
    /\ unpackDirs = {}

\* with SkipCleanup set, after the workspace was created: the run directory
\* exists, and so does the directory of every image whose loop body created one
C16_Inv ==
    (SkipCleanup /\ pc \notin {"idle", "unpack"} /\ retErr.at # "workspace") =>
        /\ tmpdir
        /\ \A i \in DOMAIN started :
              started[i] \in unpackDirs
                 \/ (i = Len(started) /\ retErr = OtherError("mktempDir"))
        /\ \A i \in DOMAIN driverCalls :
              driverCalls[i].files \subseteq FilesIn(driverCalls[i].image)

\* within a run with SkipCleanup set no step removes a directory or a file
C16_Step ==
    (SkipCleanup /\ runs' = runs) =>
        /\ tmpdir => tmpdir'
        /\ unpackDirs \subseteq unpackDirs'
        /\ dirFiles \subseteq dirFiles'

\* C16: with SkipCleanup set, cleanup is suppressed on every exit path: the
\* run temp directory and every per-image temp directory created during the
\* run still exist, with their content, when Publish returns.
C16_CleanupSuppressed == []C16_Inv /\ [][C16_Step]_vars

C16_Witness ==
    /\ pc = "done"
    /\ SkipCleanup
    /\ tmpdir
    /\ Cardinality(unpackDirs) = 2
    /\ \A k \in unpackDirs : FilesIn(k) # {}


\* after ctx was cancelled no further image of the run is started
C17_Step == (ctxDone /\ runs' = runs) => started' = started

\* the deferred cleanup of the run directory has run when a cancelled
\* invocation returns
C17_CleanupsRun == (pc = "done" /\ ctxDone /\ ~SkipCleanup) => ~tmpdir

\* C17: if the context is cancelled while the per-image loop is running, the
\* operation in progress completes its current extraction, the loop is left
\* without starting any further image, and the deferred cleanups run before
\* Publish returns.
C17_CancellationLeavesLoop == []C17_CleanupsRun /\ [][C17_Step]_vars

\* a cancelled run that handed a later image to the driver and committed
C17_CancelledRunGoesOn ==
    /\ pc = "done"
    /\ ctxDone
    /\ Len(driverCalls) = 2
    /\ retErr = NoError
    /\ wrote


\* the phase a position of Publish belongs to: 1 UNPACK_META, 2 LOAD_CURRENT,
\* 3 GUARD_SEQ, 4 UNPACK_CHARTS, 5 PREPARE_ASSOCS, 6 PER_IMAGE_LOOP,
\* 7 UNPACK_SIGNATURES, 8 CUSTOM_IMAGES, 9 COMMIT_META, 10 DONE; 0 before the
\* first invocation
Phase(p) ==
    CASE p = "idle" -> 0
      [] p = "unpack" -> 1
      [] p \in {"backend", "read"} -> 2
      [] p = "guard" -> 3
      [] p = "charts" -> 4
      [] p = "assocs" -> 5
      [] p \in {"image", "assoc", "manifests", "layers", "fetch", "publish",
                "imageEnd"} -> 6
      [] p = "signatures" -> 7
      [] p = "custom" -> 8
      [] p = "commit" -> 9
      [] p \in {"return", "done", "exited"} -> 10

DonePhase == Phase("done")

\* a step of an invocation stays in its phase, enters the next one without an
\* error, or goes to DONE; an error takes it to DONE, and from there only the
\* deferred calls act
C18_Step ==
    /\ runs' # runs => Phase(pc') \in {Phase("unpack"), DonePhase}
    /\ runs' = runs =>
         /\ Phase(pc') \in {Phase(pc), Phase(pc) + 1, DonePhase}
         /\ Phase(pc') \notin {Phase(pc), DonePhase} => retErr' = NoError
         /\ retErr' # NoError => Phase(pc') = DonePhase
         /\ Phase(pc) = DonePhase =>
              /\ UNCHANGED <<registry, retErr, wrote, allMappings, driverCalls,
                             errs, started, fetched, pushed, currentMeta>>
              /\ localFile' \in {localFile, Absent}

\* C18: a run goes through UNPACK_META, LOAD_CURRENT, GUARD_SEQ, UNPACK_CHARTS,
\* PREPARE_ASSOCS, PER_IMAGE_LOOP, UNPACK_SIGNATURES, CUSTOM_IMAGES, COMMIT_META
\* in exactly this order, entering each at most once, and a fatal error in any
\* phase leads directly to DONE(err): no later phase has any effect after it.
C18_PhaseOrder == [][C18_Step]_vars

\* a run that went through the loop and failed in CUSTOM_IMAGES: no commit
C18_Witness ==
    /\ pc = "done"
    /\ retErr = OtherError("custom")
    /\ Len(driverCalls) = 2
    /\ ~wrote
    /\ registry = before.registry


\* Publish is returning the error of lines 181-188 about o.ToMirror
RejectedToMirror == retErr = OtherError("toMirror")

\* C19: a ToMirror value that cannot be parsed or is not a registry-type
\* reference is rejected as a pre-flight check: Publish returns the error
\* before the metadata backend is read, before any Helm chart is written to
\* OutputDir and before any image is processed.
C19_ToMirrorPreflight ==
    RejectedToMirror =>
        /\ readErr = ""
        /\ outputDir = {}
        /\ started = <<>>

\* the part the code keeps: no image is processed, nothing is committed
C19_BeforeAnyImage ==
    /\ RejectedToMirror => (started = <<>> /\ allMappings = {} /\ ~wrote)
    /\ (pc = "done" /\ toMirrorType # DestinationRegistry) => retErr # NoError

\* a stateless run rejected for its ToMirror after it read the backend's
\* metadata file and wrote the Helm charts
C19_RejectedLate ==
    /\ pc = "done"
    /\ RejectedToMirror
    /\ toMirrorType = "file"
    /\ backend = "local"
    /\ readErr = "nil"
    /\ HelmDir \in outputDir


\* the registry backend's ReadMetadata has returned and its result is about
\* to be used
RegistryReadDone == pc = "guard" /\ backend = "registry"

\* C20: the registry backend's ReadMetadata returns ErrMetadataNotExist exactly
\* when the manifest request fails with status 404, or with 401 while the
\* push-permission check succeeds; with 401 and a failing check, and with any
\* other manifest error, an error is returned; in none of these cases is the
\* image pulled or the local buffer modified.
C20_ExistenceCheck ==
    RegistryReadDone =>
        /\ readErr = "ErrMetadataNotExist" <=>
              \/ manifestAns.code = 404
              \/ manifestAns.code = 401 /\ manifestAns.pushOK
        /\ (manifestAns.code = 401 /\ ~manifestAns.pushOK) => readErr = "error"
        /\ manifestAns.code \notin {200, 401, 404} => readErr = "error"
        /\ manifestAns.code # 200 =>
              /\ ~manifestAns.pulled
              /\ localFile = before.localFile
              /\ currentMeta = ZeroMeta

\* 401 with push permission, on a workspace whose local buffer holds the
\* metadata of an earlier run: reported as not existing, buffer untouched
C20_Witness ==
    /\ RegistryReadDone
    /\ manifestAns.code = 401
    /\ manifestAns.pushOK
    /\ readErr = "ErrMetadataNotExist"
    /\ localFile.present
    /\ localFile = before.localFile


(***************************************************************************)
(* The metadata backends on their own: WriteMetadata, then ReadMetadata at *)
(* the same path, for every metadata document and any earlier content.     *)
(***************************************************************************)
\* the documents the path may hold before the write
EarlierDocuments ==
    {Absent} \cup {Holding(Marshal(Meta(u, FALSE, 1, "simple", "simple"))) : u \in Uids}

\* Publish is about to call backend.WriteMetadata(ctx, &incomingMeta, path)
InitRoundTrip ==
    /\ imageRuns = 0
    /\ runs = 1
    /\ pc = "commit"
    /\ incomingMeta \in IncomingMetas
    /\ backend = IF incomingMeta.SingleUse THEN "local" ELSE "registry"
    /\ localFile \in EarlierDocuments
    /\ onlySingleUse = (incomingMeta.SingleUse /\ localFile = Absent)
    /\ \E d \in EarlierDocuments :
         registry = [r \in ImageRefs |->
                       IF r = newMetadataImage(incomingMeta.Uid) THEN d ELSE Absent]
    /\ SkipCleanup = FALSE
    /\ DryRun = FALSE
    /\ ctxDone = FALSE
    /\ toMirrorType = DestinationRegistry
    /\ filesInArchive = {}
    /\ currentMeta = ZeroMeta
    /\ readErr = ""
    /\ manifestAns = NoAnswer
    /\ deferred = <<>>
    /\ logged = {}
    /\ tmpdir = TRUE
    /\ outputDir = {}
    /\ faults = 0
    /\ retErr = NoError
    /\ before = [registry |-> registry, localFile |-> localFile]
    /\ wrote = FALSE
    /\ errs = <<>>
    /\ allMappings = {}
    /\ keysLeft = {}
    /\ imageName = ""
    /\ valuesLeft = {}
    /\ assoc = NoAssoc
    /\ digestsLeft = <<>>
    /\ missingLayers = <<>>
    /\ mmapping = <<>>
    /\ unpackDirs = {}
    /\ dirFiles = {}
    /\ driverCalls = <<>>
    /\ started = <<>>
    /\ fetched = {}
    /\ pushed = {}
    /\ custom = NoCustom
    /\ NoBuild
    /\ NoCopy

\* backend.WriteMetadata(ctx, &incomingMeta, config.MetadataBasePath)
RoundTripWrite ==
    /\ pc = "commit"
    /\ WriteMetadata

\* backend.ReadMetadata(ctx, &currentMeta, config.MetadataBasePath) on the
\* backend that was written
RoundTripRead ==
    /\ pc = "return"
    /\ wrote
    /\ pc' = "guard"
    /\ UNCHANGED <<imageRuns, runs, onlySingleUse, inputVars, copyVars, buildVars, backend, deferred, logged, tmpdir,
                   outputDir, retErr, before, wrote, loopVars>>
    /\ (LocalBackendRead \/ RegistryBackendRead)

NextRoundTrip ==
    \/ RoundTripWrite
    \/ RoundTripRead

SpecRoundTrip == InitRoundTrip /\ [][NextRoundTrip]_vars

C22_DriverPlansOnly == DryRun => pushed = {}

\* C22: with DryRun set no push to the destination registry takes effect
\* during Publish, neither an image push by the Publish Driver nor the push of
\* the metadata image at COMMIT_META: the destination registry's state after
\* the run equals its state before.
C22_DryRunPushesNothing ==
    (DryRun /\ pc = "done") =>
        /\ pushed = {}
        /\ registry = before.registry

\* a planning run that handed its images to the driver and pushed the
\* metadata image
C22_DryRunCommitted ==
    /\ pc = "done"
    /\ DryRun
    /\ Len(driverCalls) = 2
    /\ pushed = {}
    /\ backend = "registry"
    /\ wrote
    /\ registry # before.registry


\* the image keys the Publish Driver was invoked for
Published == {driverCalls[i].image : i \in DOMAIN driverCalls}

\* the driver is invoked for the image in progress, when every association of
\* it has been gone through; no file is put into the directory of an image
\* the driver was invoked for
C23_Step ==
    /\ driverCalls' # driverCalls /\ driverCalls' # <<>> =>
         /\ Len(driverCalls') = Len(driverCalls) + 1
         /\ driverCalls'[Len(driverCalls')].image = imageName
         /\ pc = "publish"
         /\ valuesLeft = {}
         /\ driverCalls'[Len(driverCalls')].files = FilesIn(imageName)
    /\ runs' = runs =>
         \A f \in dirFiles' \ dirFiles : f[1] \notin Published /\ f[1] = imageName

\* at most one invocation per image, each with a non-empty mapping list
C23_Inv ==
    /\ \A i, j \in DOMAIN driverCalls :
          driverCalls[i].image = driverCalls[j].image => i = j
    /\ \A i \in DOMAIN driverCalls : driverCalls[i].mappings # <<>>

\* C23: for each image, every child-manifest extraction, every own-manifest
\* extraction, every blob extraction and every blob back-fill of that image
\* complete before the Publish Driver is invoked for it; the driver is invoked
\* at most once per image, only with a non-empty mapping list, and nothing is
\* extracted or back-filled into that image's directory after the invocation.
C23_PerImageOrdering == []C23_Inv /\ [][C23_Step]_vars

\* the driver was invoked for the index image with its child manifest, both
\* own manifests and a back-filled blob in the directory
C23_Witness ==
    /\ pc = "imageEnd"
    /\ imageName = "origin.test/imgB:latest"
    /\ \E i \in DOMAIN driverCalls :
         /\ driverCalls[i].image = imageName
         /\ Len(driverCalls[i].mappings) = 2
         /\ ManifestFile(<<"team", "pb">>, "c1") \in driverCalls[i].files
         /\ ManifestFile(<<"team", "pb">>, "mB") \in driverCalls[i].files
         /\ ImageBlobPath(<<"team", "pb">>, "l2") \in driverCalls[i].files
         /\ ImageBlobPath(<<"team", "pb">>, "l3") \in driverCalls[i].files
    /\ fetched # {}


\* the associations whose mapping is in driver call c
AssocsOf(c) == {a \in Search(assocs, c.image) : \E i \in DOMAIN c.mappings : c.mappings[i] = Mapping(a)}

\* every layer of association a is among files, under a's blobs directory
BlobsOnDisk(a, files) ==
    \A l \in Range(a.LayerDigests) : ImageBlobPath(a.Path, l) \in files

\* C24: every mapping handed to the Publish Driver belongs to an association
\* that is complete on disk at the time of the call: each of its layer digests
\* is under the image's blobs directory and its manifest file was extracted;
\* an association with a failed blob extraction or a skipped back-fill is
\* never among the mappings pushed.
C24_PushedAssociationsComplete ==
    \A i \in DOMAIN driverCalls :
        \A a \in AssocsOf(driverCalls[i]) :
            /\ ManifestFile(a.Path, a.ID) \in driverCalls[i].files
            /\ BlobsOnDisk(a, driverCalls[i].files)

\* the part the code keeps: the own manifest of every pushed association was
\* extracted, and an incomplete association leaves an error for its image
C24_ManifestExtracted ==
    \A i \in DOMAIN driverCalls :
        \A a \in AssocsOf(driverCalls[i]) :
            /\ ManifestFile(a.Path, a.ID) \in driverCalls[i].files
            /\ ~BlobsOnDisk(a, driverCalls[i].files) =>
                  \E j \in DOMAIN errs : errs[j].image = driverCalls[i].image

\* a mapping was pushed although the extraction of one of its blobs failed
C24_PushedAfterFailedBlob ==
    \E i \in DOMAIN driverCalls :
        /\ driverCalls[i].image = "origin.test/lib/imgA:latest"
        /\ Mapping(AssocA) \in Range(driverCalls[i].mappings)
        /\ ImageBlobPath(<<"pa">>, "l1") \notin driverCalls[i].files
        /\ \E j \in DOMAIN errs : errs[j].op = "unpack blob" /\ errs[j].digest = "l1"

\* a mapping was pushed although its back-fill was skipped: the image key did
\* not parse, after the mapping had been appended
C24_PushedWithoutBackfill ==
    \E i \in DOMAIN driverCalls :
        /\ driverCalls[i].image = "img X"
        /\ Mapping(AssocX) \in Range(driverCalls[i].mappings)
        /\ BlobFile("l1") \notin filesInArchive
        /\ ImageBlobPath(<<"px">>, "l1") \notin driverCalls[i].files


\* the step that handles the next layer digest of the association in progress
LayerStep == pc = "layers" /\ digestsLeft # <<>> /\ digestsLeft' = Tail(digestsLeft)

\* the three outcomes for layer l with destination path p
Extracted(l, p) ==
    /\ <<imageName, p>> \in dirFiles'
    /\ BlobFile(l) \in filesInArchive
    /\ missingLayers' = missingLayers
    /\ errs' = errs

RecordedMissing(l, p) ==
    /\ l \in DOMAIN missingLayers'
    /\ missingLayers'[l] =
          (IF l \in DOMAIN missingLayers THEN missingLayers[l] ELSE <<>>) \o <<p>>
    /\ \A k \in DOMAIN missingLayers : k # l => missingLayers'[k] = missingLayers[k]
    /\ DOMAIN missingLayers' = DOMAIN missingLayers \cup {l}
    /\ dirFiles' = dirFiles
    /\ errs' = errs

RecordedError(l) ==
    /\ Len(errs') = Len(errs) + 1
    /\ SubSeq(errs', 1, Len(errs)) = errs
    /\ errs'[Len(errs')].image = imageName
    /\ errs'[Len(errs')].digest = l
    /\ missingLayers' = missingLayers
    /\ dirFiles' = dirFiles

C25_Step ==
    LayerStep =>
        LET l == Head(digestsLeft)
            p == ImageBlobPath(assoc.Path, l) IN
        /\ Extracted(l, p) \/ RecordedMissing(l, p) \/ RecordedError(l)
        /\ ~(Extracted(l, p) /\ RecordedMissing(l, p))
        /\ ~(Extracted(l, p) /\ RecordedError(l))
        /\ ~(RecordedMissing(l, p) /\ RecordedError(l))
        /\ BlobFile(l) \notin filesInArchive => RecordedMissing(l, p)
        /\ pc' = "layers"
        /\ retErr' = retErr

\* C25: for each layer digest L of an association exactly one of three
\* outcomes occurs: L is extracted from the archive and nothing is recorded;
\* L is not in the archive (entry not found, or file does not exist) and its
\* destination path is appended to missingLayers[L] with no error recorded;
\* or any other failure occurs and an error is appended to the per-image list
\* without L being recorded as missing.  In all three cases processing
\* continues with the next layer.
C25_BlobClassification == [][C25_Step]_vars

\* both layers of image A were handled: l1 was in the archive index but not
\* on disk after the extraction and is recorded missing, l2 was extracted
C25_Witness ==
    /\ pc = "layers"
    /\ digestsLeft = <<>>
    /\ assoc = AssocA
    /\ BlobFile("l1") \in filesInArchive
    /\ DOMAIN missingLayers = {"l1"}
    /\ missingLayers["l1"] = <<ImageBlobPath(<<"pa">>, "l1")>>
    /\ <<imageName, ImageBlobPath(<<"pa">>, "l2")>> \in dirFiles
    /\ errs = <<>>


\* the error of lines 215-216 for child digest d of image k
MissingManifest(k, d) == Err("missing manifest", k, d)

MissingManifestIn(es) == \E j \in DOMAIN es : es[j].op = "missing manifest"

\* the step that handles the next child digest of the index in progress, when
\* no association of the image's group has that digest as its name
MissingChildStep ==
    /\ pc = "manifests" /\ digestsLeft # <<>> /\ digestsLeft' = Tail(digestsLeft)
    /\ ~\E a \in Search(assocs, imageName) : a.Name = Head(digestsLeft)

\* the error is accumulated, the child is not extracted, the next child and
\* the other associations are still to be processed
C26_Step ==
    MissingChildStep =>
        /\ errs' = Append(errs, MissingManifest(imageName, Head(digestsLeft)))
        /\ dirFiles' = dirFiles
        /\ pc' = "manifests"
        /\ valuesLeft' = valuesLeft
        /\ retErr' = retErr
        /\ faults' = faults

C26_Inv ==
    MissingManifestIn(errs) =>
        /\ ~wrote
        /\ pc \notin {"signatures", "custom", "commit"}
        /\ registry = before.registry
        /\ pc = "done" =>
              /\ retErr # NoError
              /\ retErr \in {AggregateError, OtherError("fetchBlobs"),
                             OtherError("mktempDir")}

ManifestFailed(k, a) == \E j \in DOMAIN errs : errs[j] = Err("unpack manifest", k, a.ID)

\* the step in which the extraction of the association's own manifest fails
ManifestFailStep ==
    /\ pc = "manifests" /\ digestsLeft = <<>>
    /\ errs' # errs

\* the error is accumulated and the association is left: nothing is extracted,
\* recorded as missing, fetched or mapped, and the next association is taken
C27_Step ==
    ManifestFailStep =>
        /\ errs' = Append(errs, Err("unpack manifest", imageName, assoc.ID))
        /\ pc' = "assoc"
        /\ valuesLeft' = valuesLeft
        /\ dirFiles' = dirFiles
        /\ missingLayers' = missingLayers
        /\ fetched' = fetched
        /\ mmapping' = mmapping
        /\ allMappings' = allMappings
        /\ retErr' = retErr

\* layers of association a that no other association of its image has
OwnLayers(a) ==
    {l \in Range(a.LayerDigests) :
        \A b \in Search(assocs, a.Key) \ {a} : l \notin Range(b.LayerDigests)}

\* an association whose manifest failed stays without blob and without mapping
C27_Inv ==
    \A a \in assocs :
        ManifestFailed(a.Key, a) =>
            /\ \A l \in OwnLayers(a) :
                  /\ <<a.Key, ImageBlobPath(a.Path, l)>> \notin dirFiles
                  /\ \A i \in DOMAIN driverCalls :
                        driverCalls[i].image = a.Key =>
                            ImageBlobPath(a.Path, l) \notin driverCalls[i].files
            /\ ~(imageName = a.Key /\ assoc = a /\ pc \in {"layers", "mapping", "fetch"})
            /\ Mapping(a) \notin Range(mmapping)
            /\ \A i \in DOMAIN driverCalls : Mapping(a) \notin Range(driverCalls[i].mappings)
            /\ ~wrote

\* C27: when the extraction of an association's own manifest fails, an error
\* is accumulated and the association is skipped: none of its blobs is
\* extracted or back-filled, no mapping for it is handed to the driver or added
\* to allMappings, and the next association of the image is processed.
C27_ManifestFailureSkips == []C27_Inv /\ [][C27_Step]_vars

\* the manifest of child c1 failed; the index mB of the same image was still
\* processed and handed to the driver alone
C27_Witness ==
    /\ ManifestFailed("origin.test/imgB:latest", AssocC1)
    /\ \E i \in DOMAIN driverCalls :
          /\ driverCalls[i].image = "origin.test/imgB:latest"
          /\ driverCalls[i].mappings = <<Mapping(AssocB)>>
          /\ ManifestFile(<<"team", "pb">>, "mB") \in driverCalls[i].files
          /\ ImageBlobPath(<<"team", "pb">>, "l2") \notin driverCalls[i].files


\* the references findBlobRepo returns for the missing layers that have a source
SourcedRefs ==
    UNION {findBlobRepo(AssociationSet(currentMeta.PastAssociations), l) :
             l \in {x \in DOMAIN missingLayers : ~NoSource(x)}}

\* the step in which fetchBlobs goes through the missing layers
FetchLoopStep == pc = "fetch" /\ fetched' # fetched

\* C28: in fetchBlobs, for a missing layer without source in PastAssociations
\* an error is recorded and no attempt is made to open that blob from a
\* registry or to write any of its destination paths; the other missing layers
\* are still attempted and the returned aggregate is non-nil.
C28_NoSourceNotAttempted ==
    [][FetchLoopStep =>
         /\ fetched' \subseteq fetched \cup SourcedRefs
         /\ \A l \in DOMAIN missingLayers :
               NoSource(l) =>
                  /\ retErr' = OtherError("fetchBlobs")
                  /\ \A p \in Range(missingLayers[l]) :
                        <<imageName, p>> \in dirFiles' => <<imageName, p>> \in dirFiles]_vars

\* what the code keeps of it: the error, no file at the layer's destination
\* paths, and the attempts for the other layers
C28_NoSourceFails ==
    [][FetchLoopStep =>
         /\ \A l \in DOMAIN missingLayers :
               ~NoSource(l) =>
                  \E r \in findBlobRepo(AssociationSet(currentMeta.PastAssociations), l) :
                      r \in fetched'
         /\ \A l \in DOMAIN missingLayers :
               NoSource(l) =>
                  /\ ZeroRef \in fetched'
                  /\ retErr' = OtherError("fetchBlobs")
                  /\ \A p \in Range(missingLayers[l]) :
                        <<imageName, p>> \in dirFiles' => <<imageName, p>> \in dirFiles]_vars

\* fetchBlobs has gone through a layer without source and a layer with one
C28_BothKinds ==
    /\ pc = "return"
    /\ retErr = OtherError("fetchBlobs")
    /\ ZeroRef \in fetched
    /\ fetched # {ZeroRef}
    /\ \E l \in DOMAIN missingLayers : NoSource(l)
    /\ \E l \in DOMAIN missingLayers : ~NoSource(l)


(***************************************************************************)
(* fetchBlob and copyBlobFile on their own, byte by byte.                  *)
(***************************************************************************)
Bytes == {0, 1}

\* contents of a blob or a file
Contents == UNION {[1..n -> Bytes] : n \in 0..MaxLen}

\* destination paths
DstNames == {"d1", "d2"}

PathLists == UNION {[1..n -> DstNames] : n \in 0..MaxPaths}

\* what io.Copy reads from src: from the read offset to the end
Remaining(src, pos) == SubSeq(src, pos + 1, Len(src))

\* a file opened with os.O_CREATE|os.O_WRONLY (no O_TRUNC) and written from
\* offset 0: what it held beyond the written bytes stays
WriteOver(old, data) == data \o SubSeq(old, Len(data) + 1, Len(old))

\* copyBlobFile(src, dstPath) returning nil (lines 419-436)
copyBlobFile(files, src, pos, dstPath) ==
    [files EXCEPT ![dstPath] = File(WriteOver(@.data, Remaining(src, pos)))]

\* the variables of Publish, which a fetchBlob call leaves alone
publishVars == <<persistVars, pc, inputVars, loadVars, deferred, logged, tmpdir, outputDir,
                 retErr, before, wrote, loopVars>>

\* fetchBlob up to repo.Blobs(ctx).Open(ctx, dgst) (lines 466-483)
OpenBlob ==
    /\ fpc = "open"
    /\ UNCHANGED <<publishVars, buildVars, blob, dstPaths, dstLeft, dstFiles, dstBefore>>
    /\ \/ /\ opens' = opens + 1
          /\ rcPos' = 0
          /\ fpc' = IF dstLeft = <<>> THEN "ok" ELSE "copy"
          /\ UNCHANGED faults
       \/ \* RepositoryForRef or digest.Parse fails
          /\ CanFail
          /\ faults' = faults + 1
          /\ fpc' = "err"
          /\ UNCHANGED <<opens, rcPos>>
       \/ \* Open fails
          /\ CanFail
          /\ faults' = faults + 1
          /\ opens' = opens + 1
          /\ fpc' = "err"
          /\ UNCHANGED rcPos

\* copyBlobFile(rc, dstPath) for the next destination path (lines 485-488)
CopyBlob ==
    /\ fpc = "copy"
    /\ UNCHANGED <<publishVars, buildVars, blob, opens, dstPaths, dstLeft, dstBefore>>
    /\ \/ /\ dstFiles' = copyBlobFile(dstFiles, blob, rcPos, Head(dstLeft))
          /\ rcPos' = Len(blob)
          /\ fpc' = "seek"
          /\ UNCHANGED faults
       \/ \* MkdirAll or OpenFile fails
          /\ CanFail
          /\ faults' = faults + 1
          /\ fpc' = "err"
          /\ UNCHANGED <<dstFiles, rcPos>>
       \/ \* io.Copy fails after n bytes
          /\ CanFail
          /\ faults' = faults + 1
          /\ fpc' = "err"
          /\ \E n \in 0..(Len(blob) - rcPos) :
               /\ dstFiles' = [dstFiles EXCEPT ![Head(dstLeft)] =
                                 File(WriteOver(@.data, SubSeq(blob, rcPos + 1, rcPos + n)))]
               /\ rcPos' = rcPos + n

\* rc.Seek(0, 0) after the copy (lines 489-491)
SeekStart ==
    /\ fpc = "seek"
    /\ UNCHANGED <<publishVars, buildVars, blob, opens, dstPaths, dstFiles, dstBefore>>
    /\ \/ /\ rcPos' = 0
          /\ dstLeft' = Tail(dstLeft)
          /\ fpc' = IF Tail(dstLeft) = <<>> THEN "ok" ELSE "copy"
          /\ UNCHANGED faults
       \/ /\ CanFail
          /\ faults' = faults + 1
          /\ fpc' = "err"
          /\ UNCHANGED <<rcPos, dstLeft>>

\* one fetchBlob call, with any blob, any list of destination paths and any
\* files at those paths
InitCopy ==
    /\ registry = [r \in ImageRefs |-> Absent]
    /\ localFile = Absent
    /\ imageRuns = 0
    /\ runs = 0
    /\ onlySingleUse = TRUE
    /\ pc = "idle"
    /\ SkipCleanup = FALSE
    /\ DryRun = FALSE
    /\ ctxDone = FALSE
    /\ toMirrorType = "registry"
    /\ outputDir = {}
    /\ filesInArchive = {}
    /\ incomingMeta = ZeroMeta
    /\ currentMeta = ZeroMeta
    /\ backend = ""
    /\ readErr = ""
    /\ manifestAns = NoAnswer
    /\ deferred = <<>>
    /\ logged = {}
    /\ tmpdir = FALSE
    /\ faults = 0
    /\ retErr = NoError
    /\ before = [registry |-> registry, localFile |-> localFile]
    /\ wrote = FALSE
    /\ errs = <<>>
    /\ allMappings = {}
    /\ keysLeft = {}
    /\ imageName = ""
    /\ valuesLeft = {}
    /\ assoc = NoAssoc
    /\ digestsLeft = <<>>
    /\ missingLayers = <<>>
    /\ mmapping = <<>>
    /\ unpackDirs = {}
    /\ dirFiles = {}
    /\ driverCalls = <<>>
    /\ started = <<>>
    /\ fetched = {}
    /\ pushed = {}
    /\ custom = NoCustom
    /\ NoBuild
    /\ fpc = "open"
    /\ blob \in Contents
    /\ rcPos = 0
    /\ opens = 0
    /\ dstPaths \in PathLists
    /\ dstLeft = dstPaths
    /\ dstFiles \in [DstNames -> {NoFile} \cup {File(c) : c \in Contents}]
    /\ dstBefore = dstFiles

NextCopy ==
    \/ OpenBlob
    \/ CopyBlob
    \/ SeekStart

SpecCopy == InitCopy /\ [][NextCopy]_vars

\* C29: a successful fetchBlob opens the blob from the registry exactly once,
\* rewinds it to the start between copies, and leaves in every destination
\* path a file whose content is exactly the blob's content, also when the path
\* existed before (for example with longer content) and when it occurs more
\* than once in the list.
C29_BackfillCopy ==
    /\ fpc = "copy" => rcPos = 0
    /\ fpc = "ok" =>
          /\ opens = 1
          /\ \A i \in DOMAIN dstPaths : dstFiles[dstPaths[i]] = File(blob)

\* what the code keeps of it: one open, every copy from the start of the blob,
\* the blob at the start of every destination file, and exactly the blob where
\* the file did not exist or was not longer; a longer file keeps its length
C29_CopyOverwritesPrefix ==
    /\ fpc = "copy" => rcPos = 0
    /\ fpc = "ok" =>
          /\ opens = 1
          /\ \A p \in DstNames :
                IF p \in Range(dstPaths)
                  THEN /\ dstFiles[p].present
                       /\ SubSeq(dstFiles[p].data, 1, Len(blob)) = blob
                       /\ Len(dstBefore[p].data) <= Len(blob) => dstFiles[p].data = blob
                       /\ Len(dstBefore[p].data) > Len(blob) =>
                             /\ Len(dstFiles[p].data) = Len(dstBefore[p].data)
                             /\ dstFiles[p].data # blob
                  ELSE dstFiles[p] = dstBefore[p]

\* a successful fetchBlob that left a file holding more than the blob
C29_StaleTail ==
    /\ fpc = "ok"
    /\ dstPaths = <<"d1", "d2", "d1">>
    /\ blob = <<1>>
    /\ dstBefore["d1"] = File(<<0, 0>>)
    /\ dstFiles["d1"] = File(<<1, 0>>)
    /\ dstFiles["d2"] = File(blob)


Invoked(step) == step \in Range(custom.calls)

\* processCustomImages runs at its place, after the loop and the signatures
C30_Step ==
    custom' # custom /\ custom'.ran =>
        /\ pc = "custom"
        /\ errs = <<>>
        /\ keysLeft = {}
        /\ retErr = NoError
        /\ ~wrote

C30_Inv ==
    custom.ran =>
        /\ Invoked("rebuildCatalogs") <=> custom.catalog
        /\ Invoked("buildGraphImage") <=> custom.release
        /\ custom.calls \in {<<>>, <<"rebuildCatalogs">>, <<"buildGraphImage">>,
                             <<"rebuildCatalogs", "buildGraphImage">>}
        /\ custom.failed = "rebuildCatalogs" => ~Invoked("buildGraphImage")
        /\ custom.failed # "" =>
              /\ pc \in {"return", "done", "exited"}
              /\ retErr = OtherError("custom")
              /\ ~wrote
              /\ allMappings \cap CustomMappings = {}
        /\ custom.failed = "" =>
              /\ CatalogMapping \in allMappings <=> custom.catalog
              /\ GraphMapping \in allMappings <=> custom.release

\* C30: after the per-image loop and the release signatures, rebuildCatalogs
\* is invoked iff a catalog directory was found in the archive, and afterwards
\* buildGraphImage iff release data was found; an error of the catalog step
\* ends the run before the graph step, and an error of either step makes
\* Publish return an error without committing metadata and without merging the
\* step's mappings into the result.
C30_CustomImages == []C30_Inv /\ [][C30_Step]_vars

\* both builders ran and the run committed with both mappings merged
C30_Witness ==
    /\ pc = "done"
    /\ retErr = NoError
    /\ wrote
    /\ custom.calls = <<"rebuildCatalogs", "buildGraphImage">>
    /\ CustomMappings \subseteq allMappings

\* the graph step failed after the catalog step: nothing merged, no commit
C30_GraphFailed ==
    /\ pc = "done"
    /\ custom.failed = "buildGraphImage"
    /\ custom.catalog
    /\ retErr = OtherError("custom")
    /\ ~wrote
    /\ allMappings \cap CustomMappings = {}


\* C31: whenever a step of a publish run fails, Publish returns a non-nil
\* error, the error of the stateless-mode metadata Cleanup included, and every
\* error accumulated in the per-image loop is part of the returned aggregate.
C31_NothingSwallowed ==
    pc = "done" =>
        /\ (errs # <<>> \/ logged # {}) => retErr # NoError
        /\ errs # <<>> => retErr = AggregateError

\* what the code keeps of it: a nil return comes with no accumulated error and
\* with the metadata committed; accumulated errors give a non-nil return
C31_NilMeansNoLoopError ==
    (pc = "done" /\ retErr = NoError) => (errs = <<>> /\ wrote)

\* Publish returned nil although the metadata Cleanup failed
C31_CleanupErrorLogged ==
    /\ pc = "done"
    /\ retErr = NoError
    /\ incomingMeta.SingleUse
    /\ "backend.Cleanup" \in logged
    /\ localFile # Absent

\* Publish returned the error of fetchBlobs and dropped the accumulated ones
C31_AccumulatedDropped ==
    /\ pc = "done"
    /\ errs # <<>>
    /\ retErr = OtherError("fetchBlobs")


(***************************************************************************)
(* The association builder (pkg/image) on its own, as its tests fix it.    *)
(***************************************************************************)
\* the digests of testdata: single_manifest, index_manifest and its children
SingleManifestID == "d31c"

IndexManifestID == "d15a"

ChildIDs == {"bab3", "9574", "b8a8", "60f5"}

\* the children index_manifest lists in testdata
TestdataChildren == <<"bab3", "9574", "b8a8", "60f5">>

\* the layers of the image manifests of testdata
LayersOf(d) ==
    CASE d = "d31c" -> <<"e861", "6014", "2119", "f0fd", "0c0b", "30c7">>
      [] d = "60f5" -> <<"b538", "342a", "7066", "f553", "c533", "af94", "337f", "4d4b">>
      [] d = "9574" -> <<"b4b7", "8d01", "46f9", "21d0", "61a5", "a92d", "317a", "d476">>
      [] d = "b8a8" -> <<"5227", "1dc2", "2610", "7c12", "8787", "5ad5", "6121", "c72b">>
      [] d = "bab3" -> <<"df20", "5844", "49f7", "b83c", "3682", "f31b", "5906", "3f16">>
      [] OTHER -> <<>>

\* lists of distinct child digests an index may hold
ChildLists ==
    {c \in UNION {[1..n -> ChildIDs] : n \in 0..MaxChildren} :
        \A i, j \in DOMAIN c : i # j => c[i] # c[j]}

\* the image mappings handed to the builder: a reference with a tag, an ID or
\* both or none, a destination, and for index_manifest the children it lists
ImageMappings ==
    {[remote |-> r, tag |-> t, byID |-> b, dst |-> d, children |-> c] :
        r \in BOOLEAN, t \in {"latest", ""}, b \in BOOLEAN,
        d \in {"single_manifest", "index_manifest", "fake_manifest"},
        c \in ChildLists} \ 
    {m \in [remote : BOOLEAN, tag : {"latest", ""}, byID : BOOLEAN,
            dst : {"single_manifest", "fake_manifest"}, children : ChildLists] :
        m.children # <<>>}

IsIndex(img) == img.dst = "index_manifest"

ManifestID(img) == IF IsIndex(img) THEN IndexManifestID ELSE SingleManifestID

\* the tag symlink made for a reference by digest
OcMirrorTag(id) == IF id = "d31c" THEN "oc-mirrord31c6e" ELSE "oc-mirrord15a20"

\* the key of the image: the source reference (local), or the source
\* reference by digest on the test server (remote)
imageKey(img) ==
    IF img.remote
      THEN <<"host", "/", img.dst, "@", ManifestID(img)>>
      ELSE <<"imgname">> \o (IF img.tag # "" THEN <<":", img.tag>> ELSE <<>>)
                         \o (IF img.byID THEN <<"@", ManifestID(img)>> ELSE <<>>)

imagePath(img) ==
    IF img.remote
      THEN <<"test-registry", img.dst>>
              \o (IF img.tag # "" THEN <<":", img.tag>> ELSE <<"@", ManifestID(img)>>)
      ELSE <<img.dst>>

imageTagSymlink(img) ==
    IF img.remote THEN "latest"
    ELSE IF img.tag # "" THEN img.tag ELSE OcMirrorTag(ManifestID(img))

\* the error the builder returns for the mapping, "" for none
associateError(img) ==
    IF img.tag = "" /\ ~img.byID THEN "ErrInvalidComponent"
    ELSE IF img.dst = "fake_manifest" THEN "ErrInvalidImage"
    ELSE ""

\* the association of the image itself
topAssociation(img) ==
    Assoc(imageKey(img), imageKey(img), imagePath(img), imageTagSymlink(img),
          ManifestID(img), "generic",
          IF IsIndex(img) THEN img.children ELSE <<>>,
          IF IsIndex(img) THEN <<>> ELSE LayersOf(ManifestID(img)))

\* the association of child manifest d of the index
childAssociation(img, d) ==
    Assoc(imageKey(img), <<d>>, imagePath(img), "", d, "generic", <<>>, LayersOf(d))

\* the mappings of the test tables that are valid
LocalManifestWithTag ==
    [remote |-> FALSE, tag |-> "latest", byID |-> FALSE, dst |-> "single_manifest",
     children |-> <<>>]

LocalManifestWithDigest ==
    [remote |-> FALSE, tag |-> "", byID |-> TRUE, dst |-> "single_manifest",
     children |-> <<>>]

LocalIndexManifest ==
    [remote |-> FALSE, tag |-> "latest", byID |-> FALSE, dst |-> "index_manifest",
     children |-> TestdataChildren]

RemoteManifestWithTag ==
    [remote |-> TRUE, tag |-> "latest", byID |-> FALSE, dst |-> "single_manifest",
     children |-> <<>>]

RemoteManifestWithDigest ==
    [remote |-> TRUE, tag |-> "", byID |-> TRUE, dst |-> "single_manifest",
     children |-> <<>>]

RemoteIndexManifest ==
    [remote |-> TRUE, tag |-> "latest", byID |-> TRUE, dst |-> "index_manifest",
     children |-> TestdataChildren]

ValidTests == {LocalManifestWithTag, LocalManifestWithDigest, LocalIndexManifest,
               RemoteManifestWithTag, RemoteManifestWithDigest, RemoteIndexManifest}

\* the children of an expected index group, with the tag symlink of the index
ExpChildrenTagged(key, path, tag) ==
    {Assoc(key, <<d>>, path, tag, d, "generic", <<>>, LayersOf(d)) : d \in ChildIDs}

\* the children of an expected index group (test lines 144-211, 405-472)
ExpChildren(key, path, tag) ==
    {Assoc(key, <<d>>, path, "", d, "generic", <<>>, LayersOf(d)) : d \in ChildIDs}

\* expResult of the test tables
expResult(img) ==
    CASE img = LocalManifestWithTag ->
              {Assoc(<<"imgname", ":", "latest">>, <<"imgname", ":", "latest">>,
                     <<"single_manifest">>, "latest", "d31c", "generic", <<>>,
                     LayersOf("d31c"))}
      [] img = LocalManifestWithDigest ->
              {Assoc(<<"imgname", "@", "d31c">>, <<"imgname", "@", "d31c">>,
                     <<"single_manifest">>, "oc-mirrord31c6e", "d31c", "generic", <<>>,
                     LayersOf("d31c"))}
      [] img = LocalIndexManifest ->
              {Assoc(<<"imgname", ":", "latest">>, <<"imgname", ":", "latest">>,
                     <<"index_manifest">>, "latest", "d15a", "generic",
                     <<"bab3", "9574", "b8a8", "60f5">>, <<>>)}
              \cup ExpChildren(<<"imgname", ":", "latest">>, <<"index_manifest">>, "latest")
      [] img = RemoteManifestWithTag ->
              {Assoc(<<"host", "/", "single_manifest", "@", "d31c">>,
                     <<"host", "/", "single_manifest", "@", "d31c">>,
                     <<"test-registry", "single_manifest", ":", "latest">>,
                     "latest", "d31c", "generic", <<>>, LayersOf("d31c"))}
      [] img = RemoteManifestWithDigest ->
              {Assoc(<<"host", "/", "single_manifest", "@", "d31c">>,
                     <<"host", "/", "single_manifest", "@", "d31c">>,
                     <<"test-registry", "single_manifest", "@", "d31c">>,
                     "latest", "d31c", "generic", <<>>, LayersOf("d31c"))}
      [] img = RemoteIndexManifest ->
              {Assoc(<<"host", "/", "index_manifest", "@", "d15a">>,
                     <<"host", "/", "index_manifest", "@", "d15a">>,
                     <<"test-registry", "index_manifest", ":", "latest">>,
                     "latest", "d15a", "generic",
                     <<"bab3", "9574", "b8a8", "60f5">>, <<>>)}
              \cup ExpChildren(<<"host", "/", "index_manifest", "@", "d15a">>,
                               <<"test-registry", "index_manifest", ":", "latest">>,
                               "latest")
      [] OTHER -> {}

\* the builder reads the manifest of the image
AssociateImage ==
    /\ bpc = "start"
    /\ UNCHANGED <<publishVars, copyVars, srcImage, faults>>
    /\ IF associateError(srcImage) # ""
         THEN /\ bpc' = associateError(srcImage)
              /\ UNCHANGED <<built, childrenLeft>>
         ELSE /\ built' = {topAssociation(srcImage)}
              /\ childrenLeft' = IF IsIndex(srcImage) THEN srcImage.children ELSE <<>>
              /\ bpc' = IF IsIndex(srcImage) /\ srcImage.children # <<>>
                          THEN "children" ELSE "ok"

\* the builder reads the next child manifest of the index
AssociateChild ==
    /\ bpc = "children"
    /\ UNCHANGED <<publishVars, copyVars, srcImage>>
    /\ \/ /\ built' = built \cup {childAssociation(srcImage, Head(childrenLeft))}
          /\ childrenLeft' = Tail(childrenLeft)
          /\ bpc' = IF Tail(childrenLeft) = <<>> THEN "ok" ELSE "children"
          /\ UNCHANGED faults
       \/ \* the child manifest cannot be read: the builder returns the error
          /\ CanFail
          /\ faults' = faults + 1
          /\ bpc' = "error"
          /\ built' = {}
          /\ UNCHANGED childrenLeft

\* one call of the builder for any image mapping
InitAssociate ==
    /\ registry = [r \in ImageRefs |-> Absent]
    /\ localFile = Absent
    /\ imageRuns = 0
    /\ runs = 0
    /\ onlySingleUse = TRUE
    /\ pc = "idle"
    /\ SkipCleanup = FALSE
    /\ DryRun = FALSE
    /\ ctxDone = FALSE
    /\ toMirrorType = "registry"
    /\ outputDir = {}
    /\ filesInArchive = {}
    /\ incomingMeta = ZeroMeta
    /\ currentMeta = ZeroMeta
    /\ backend = ""
    /\ readErr = ""
    /\ manifestAns = NoAnswer
    /\ deferred = <<>>
    /\ logged = {}
    /\ tmpdir = FALSE
    /\ faults = 0
    /\ retErr = NoError
    /\ before = [registry |-> registry, localFile |-> localFile]
    /\ wrote = FALSE
    /\ errs = <<>>
    /\ allMappings = {}
    /\ keysLeft = {}
    /\ imageName = ""
    /\ valuesLeft = {}
    /\ assoc = NoAssoc
    /\ digestsLeft = <<>>
    /\ missingLayers = <<>>
    /\ mmapping = <<>>
    /\ unpackDirs = {}
    /\ dirFiles = {}
    /\ driverCalls = <<>>
    /\ started = <<>>
    /\ fetched = {}
    /\ pushed = {}
    /\ custom = NoCustom
    /\ bpc = "start"
    /\ srcImage \in ImageMappings
    /\ built = {}
    /\ childrenLeft = <<>>
    /\ NoCopy

NextAssociate ==
    \/ AssociateImage
    \/ AssociateChild

SpecAssociate == InitAssociate /\ [][NextAssociate]_vars

\* the shape of the group built for image mapping img
IndexShape(img, as) ==
    LET key == imageKey(img)
        kids == IF IsIndex(img) THEN img.children ELSE <<>> IN
    /\ \A a \in as : a.Key = key
    /\ Cardinality({a \in as : a.Name = key}) = 1
    /\ \A a \in as :
          a.Name = key =>
             /\ a.ManifestDigests = kids
             /\ IsIndex(img) => a.LayerDigests = <<>>
             /\ \A d \in Range(kids) :
                   /\ Cardinality({c \in as : c.Name = <<d>>}) = 1
                   /\ \A c \in as :
                         c.Name = <<d>> =>
                            /\ c.ID = d
                            /\ c.Path = a.Path
                            /\ c.TagSymlink = ""
                            /\ c.ManifestDigests = <<>>
                            /\ c.LayerDigests = LayersOf(d)
                            /\ c.LayerDigests # <<>>
    /\ Cardinality(as) = 1 + Len(kids)

\* C32: the associations built for an image index are, under the image's key,
\* one association for the index (named by the image, ManifestDigests listing
\* every child, no LayerDigests) plus exactly one per child manifest, named by
\* the child's digest, with the Path of the index, an empty TagSymlink, no
\* ManifestDigests and its own LayerDigests; a non-index image gives exactly
\* one association without ManifestDigests. The expected results of the test
\* tables have that shape and are what the builder returns for their mappings.
C32_AssociationShape ==
    /\ \A t \in ValidTests : IndexShape(t, expResult(t))
    /\ bpc = "ok" =>
          /\ IndexShape(srcImage, built)
          /\ srcImage \in ValidTests => built = expResult(srcImage)

\* the index of the test tables was associated with its four children
C32_Witness ==
    /\ bpc = "ok"
    /\ srcImage = LocalIndexManifest
    /\ Cardinality(built) = 5
    /\ childAssociation(srcImage, "9574") \in built


\* the step in which the registry backend's WriteMetadata returns an error
RegistryWriteFails == pc = "commit" /\ backend = "registry" /\ retErr' # NoError

\* C33: if the registry backend's WriteMetadata returns an error, neither the
\* local buffer file nor the remote metadata image has changed.
C33_WriteFailureAtomic ==
    [][RegistryWriteFails => (localFile' = localFile /\ registry' = registry)]_vars

\* what the code keeps of it: the remote image is unchanged, and the local
\* buffer is either unchanged or holds the incoming metadata
C33_RemoteUnchangedOnError ==
    [][RegistryWriteFails =>
          /\ registry' = registry
          /\ ~wrote'
          /\ localFile' \in {localFile, Holding(Marshal(incomingMeta))}]_vars

\* the push failed after the local write: buffer and remote image differ
C33_BufferAhead ==
    /\ pc = "done"
    /\ backend = "registry"
    /\ retErr = OtherError("commit")
    /\ localFile = Holding(Marshal(incomingMeta))
    /\ registry[newMetadataImage(incomingMeta.Uid)].present
    /\ registry[newMetadataImage(incomingMeta.Uid)] # localFile
    /\ registry = before.registry



\* Publish is about to call backend.ReadMetadata, with any documents left in
\* the local buffer and in the remote image
InitRead ==
    /\ imageRuns = 0
    /\ runs = 1
    /\ pc = "read"
    /\ incomingMeta \in IncomingMetas
    /\ backend = IF incomingMeta.SingleUse THEN "local" ELSE "registry"
    /\ localFile \in EarlierDocuments
    /\ onlySingleUse = (incomingMeta.SingleUse /\ localFile = Absent)
    /\ \E d \in EarlierDocuments :
         registry = [r \in ImageRefs |->
                       IF r = newMetadataImage(incomingMeta.Uid) THEN d ELSE Absent]
    /\ SkipCleanup = FALSE
    /\ DryRun = FALSE
    /\ ctxDone = FALSE
    /\ toMirrorType = DestinationRegistry
    /\ filesInArchive = {}
    /\ currentMeta = ZeroMeta
    /\ readErr = ""
    /\ manifestAns = NoAnswer
    /\ deferred = <<>>
    /\ logged = {}
    /\ tmpdir = TRUE
    /\ outputDir = {}
    /\ faults = 0
    /\ retErr = NoError
    /\ before = [registry |-> registry, localFile |-> localFile]
    /\ wrote = FALSE
    /\ errs = <<>>
    /\ allMappings = {}
    /\ keysLeft = {}
    /\ imageName = ""
    /\ valuesLeft = {}
    /\ assoc = NoAssoc
    /\ digestsLeft = <<>>
    /\ missingLayers = <<>>
    /\ mmapping = <<>>
    /\ unpackDirs = {}
    /\ dirFiles = {}
    /\ driverCalls = <<>>
    /\ started = <<>>
    /\ fetched = {}
    /\ pushed = {}
    /\ custom = NoCustom
    /\ NoBuild
    /\ NoCopy

\* backend.ReadMetadata(ctx, &currentMeta, config.MetadataBasePath)
ReadStored ==
    /\ pc = "read"
    /\ ReadCurrentMetadata

NextRead ==
    \/ ReadStored

SpecRead == InitRead /\ [][NextRead]_vars

\* the remote metadata image of the workspace
RemoteMetadata == registry[newMetadataImage(incomingMeta.Uid)]

\* C34: after the registry backend's ReadMetadata returns without error, the
\* returned metadata and the local buffer file both equal the content of the
\* remote metadata image, also when the local buffer held another metadata
\* file before; a remote image that does not exist yields ErrMetadataNotExist
\* (any other error being that of a failed request), also when a local buffer
\* file exists, and the buffer is then neither read nor changed.
C34_RemoteIsSourceOfTruth ==
    RegistryReadDone =>
        /\ readErr = "nil" =>
              /\ RemoteMetadata.present
              /\ currentMeta = Unmarshal(RemoteMetadata.data)
              /\ localFile = Holding(RemoteMetadata.data)
        /\ ~RemoteMetadata.present =>
              /\ readErr \in {"ErrMetadataNotExist", "error"}
              /\ readErr = "error" => faults > 0 /\ manifestAns.code \notin {404, 200}
              /\ currentMeta = ZeroMeta
              /\ localFile = before.localFile

\* a stale local buffer was replaced by the content of the remote image
C34_Witness ==
    /\ RegistryReadDone
    /\ readErr = "nil"
    /\ before.localFile.present
    /\ before.localFile # localFile
    /\ localFile = Holding(RemoteMetadata.data)

\* no remote image, a local buffer file, and ErrMetadataNotExist after a 404
C34_NoRemoteWithBuffer ==
    /\ RegistryReadDone
    /\ ~RemoteMetadata.present
    /\ before.localFile.present
    /\ manifestAns.code = 404
    /\ readErr = "ErrMetadataNotExist"


(***************************************************************************)
(* C35: stateless runs and the lineage.                                    *)
(***************************************************************************)
\* the local backend has read, or looked for, the metadata file in this run
StatelessReadDone == backend = "local" /\ readErr # "" /\ pc # "guard"

\* C35 as stated: starting from a Dir without metadata file, in runs whose
\* archives all have SingleUse = true, a run passes the sequence guard if and
\* only if its archive has sequence 1, and an archive of sequence 2 or more
\* is rejected, whatever sequence-1 runs came before.
C35_StatelessNeverAdvances ==
    (onlySingleUse /\ StatelessReadDone) =>
        IF incomingMeta.Sequence = 1
          THEN PassedGuard
          ELSE RejectedWith(SequenceError(1, incomingMeta.Sequence))

\* What the code keeps: a stateless run that finds no metadata file in Dir
\* passes the guard if and only if its archive has sequence 1; and a run of
\* the lineage finds a file only when backend.Cleanup of the run before
\* failed, in which case the guard asks for the sequence after the one left.
C35_CleanDirStartsOver ==
    (onlySingleUse /\ StatelessReadDone) =>
        /\ ~before.localFile.present =>
              /\ readErr = "ErrMetadataNotExist"
              /\ IF incomingMeta.Sequence = 1
                   THEN PassedGuard
                   ELSE RejectedWith(SequenceError(1, incomingMeta.Sequence))
        /\ (before.localFile.present /\ readErr = "nil") =>
              /\ currentMeta = Unmarshal(before.localFile.data)
              /\ currentMeta.SingleUse
              /\ IF incomingMeta.Sequence = currentMeta.Sequence + 1
                   THEN PassedGuard
                   ELSE RejectedWith(SequenceError(currentMeta.Sequence + 1,
                                                   incomingMeta.Sequence))

\* after a stateless run of sequence 1 whose Cleanup failed, a stateless
\* archive of sequence 2 has passed the guard and is committed
C35_SecondArchiveAccepted ==
    /\ onlySingleUse
    /\ runs = 2
    /\ backend = "local"
    /\ incomingMeta.Sequence = 2
    /\ currentMeta.Sequence = 1
    /\ pc = "done"
    /\ wrote
    /\ retErr = NoError

\* and in the same place a stateless archive of sequence 1 is rejected
C35_FirstArchiveRejected ==
    /\ onlySingleUse
    /\ runs = 2
    /\ backend = "local"
    /\ incomingMeta.Sequence = 1
    /\ pc = "done"
    /\ retErr = SequenceError(2, 1)

\* a stateless run of sequence 1 after an earlier one that succeeded and
\* cleaned up passes the guard again
C35_StartsOver ==
    /\ onlySingleUse
    /\ runs = 2
    /\ backend = "local"
    /\ ~before.localFile.present
    /\ incomingMeta.Sequence = 1
    /\ pc = "done"
    /\ wrote
    /\ retErr = NoError


(***************************************************************************)
(* C36: the per-image workspace is bounded.                                *)
(***************************************************************************)
\* with SkipCleanup unset at most one per-image directory exists, it is the
\* directory of the image being processed and it lies in the run directory
C36_Inv ==
    ~SkipCleanup =>
        /\ Cardinality(unpackDirs) <= 1
        /\ unpackDirs # {} =>
              /\ tmpdir
              /\ unpackDirs = {imageName}
              /\ imageName = started[Len(started)]
        /\ \A x \in dirFiles : x[1] \in unpackDirs

\* a step of a run that creates a per-image directory: no other directory
\* exists, the directory is new, empty, and of the image the loop turns to
C36_Step ==
    (~SkipCleanup /\ runs' = runs /\ ~(unpackDirs' \subseteq unpackDirs)) =>
        /\ pc = "image"
        /\ tmpdir
        /\ unpackDirs = {}
        /\ unpackDirs' = {imageName'}
        /\ imageName' \notin Range(started)
        /\ FilesIn(imageName') = {}
        /\ dirFiles' = dirFiles

\* C36: with SkipCleanup unset, at every moment of a run at most one
\* per-image temp directory exists; each image gets its own fresh directory
\* inside the run temp directory, and the directory of an image is removed
\* before the directory of the next image is created.
C36_BoundedWorkspace == []C36_Inv /\ [][C36_Step]_vars

\* the second image of a run is being processed in its own directory, which
\* holds files, after the directory of the first image was removed
C36_Witness ==
    /\ ~SkipCleanup
    /\ Len(started) = 2
    /\ Len(driverCalls) = 1
    /\ pc = "publish"
    /\ tmpdir
    /\ unpackDirs = {started[2]}
    /\ started[1] # started[2]
    /\ FilesIn(started[2]) # {}
    /\ FilesIn(started[1]) = {}

====
